---- MODULE Spec2Model ----
(***************************************************************************)
(* A model of the gofakes3 S3 front-end: the handlers of gofakes3.go, the  *)
(* range parser of range.go, and the uploader and backend they call.       *)
(*                                                                         *)
(* Strings that the code parses are sequences of one-character strings;    *)
(* byte payloads and object keys are run-length sequences (see Size).      *)
(***************************************************************************)
EXTENDS Integers, Sequences, FiniteSets, TLC

VARIABLES
    rngIn,      \* range harness: the Range header and the object size given
    rngOut,     \* range harness: what parseRangeHeader and Range produced
    cfg,        \* GoFakeS3: integrityCheck, metadataSizeLimit, timeSkew, hostBucket
    now,        \* the time source, in minutes after the epoch of the model
    buckets,    \* backend: the names of the buckets
    objects,    \* backend: <<bucket, key>> -> object
    resp,       \* the response to the last request served
    lastPut,    \* ghost: <<bucket, key>> -> the bytes of the last successful PUT
                \* object request, while nothing has written or deleted the key since
    registry,   \* uploader: the ids of the uploads in the registry
    uploads,    \* uploader: upload id -> the upload object, registered or detached
    inflight,   \* the multipart requests between two steps of their handler
    mpuResp,    \* the response to the last multipart request served
    ghost       \* ghost: what has happened to each upload id

rangeVars == <<rngIn, rngOut>>
storeVars == <<cfg, now, buckets, objects, resp, lastPut>>
mpuVars == <<registry, uploads, inflight, mpuResp, ghost>>
vars == <<rngIn, rngOut, cfg, now, buckets, objects, resp, lastPut,
          registry, uploads, inflight, mpuResp, ghost>>

(***************************************************************************)
(* Bounds of the model.                                                    *)
(***************************************************************************)
MaxNum == 4         \* range bounds S, E, N are drawn from 0..MaxNum
MaxSize == 3        \* object sizes of the range harness are 0..MaxSize
MaxUploads == 2     \* multipart uploads initiated in a run
MaxInFlight == 2    \* multipart requests between two steps at one time
MaxRequests == 4    \* multipart requests made in a run
MaxClock == 17      \* the time source stops at this minute

(***************************************************************************)
(* Text helpers: the Go library functions the code calls.                  *)
(***************************************************************************)
Digits == <<"0", "1", "2", "3", "4", "5", "6", "7", "8", "9">>

IsDigit(c) == \E i \in 1..10 : Digits[i] = c

DigitVal(c) == (CHOOSE i \in 1..10 : Digits[i] = c) - 1

\* fmt.Sprintf("%d", n)
RECURSIVE NatStr(_)
NatStr(n) == IF n < 10 THEN <<Digits[n + 1]>>
             ELSE NatStr(n \div 10) \o <<Digits[(n % 10) + 1]>>

DecStr(n) == IF n < 0 THEN <<"-">> \o NatStr(0 - n) ELSE NatStr(n)

\* strings.HasPrefix
HasPrefix(s, p) == Len(s) >= Len(p) /\ SubSeq(s, 1, Len(p)) = p

\* strings.Index(s, c) for a one-character c, as a 0-based offset or -1
IndexOf(s, c) ==
    IF \E i \in 1..Len(s) : s[i] = c
    THEN (CHOOSE i \in 1..Len(s) : s[i] = c /\ \A j \in 1..(i - 1) : s[j] # c) - 1
    ELSE -1

\* strings.Split(s, c) for a one-character c
RECURSIVE Split(_, _)
Split(s, c) ==
    LET i == IndexOf(s, c)
    IN  IF i < 0 THEN <<s>>
        ELSE <<SubSeq(s, 1, i)>> \o Split(SubSeq(s, i + 2, Len(s)), c)

IsSpace(c) == c \in {" ", "\t", "\n", "\r"}

\* strings.TrimSpace
RECURSIVE TrimLeft(_)
TrimLeft(s) == IF s # <<>> /\ IsSpace(Head(s)) THEN TrimLeft(Tail(s)) ELSE s

RECURSIVE TrimRight(_)
TrimRight(s) == IF s # <<>> /\ IsSpace(s[Len(s)])
                THEN TrimRight(SubSeq(s, 1, Len(s) - 1)) ELSE s

TrimSpace(s) == TrimRight(TrimLeft(s))

RECURSIVE StripZeros(_)
StripZeros(s) == IF Len(s) > 1 /\ Head(s) = "0" THEN StripZeros(Tail(s)) ELSE s

\* the decimal digits of 2^63, the cutoff of strconv.ParseInt(s, 10, 64)
Int64Cutoff == <<"9", "2", "2", "3", "3", "7", "2", "0", "3", "6",
                 "8", "5", "4", "7", "7", "5", "8", "0", "8">>

\* a < b for two digit strings of the same length
RECURSIVE DigitsLess(_, _)
DigitsLess(a, b) ==
    IF a = <<>> THEN FALSE
    ELSE IF Head(a) # Head(b) THEN DigitVal(Head(a)) < DigitVal(Head(b))
    ELSE DigitsLess(Tail(a), Tail(b))

\* whether the magnitude written by the digits d is below 2^63
BelowCutoff(d) ==
    LET z == StripZeros(d)
    IN  Len(z) < Len(Int64Cutoff) \/ (Len(z) = Len(Int64Cutoff) /\ DigitsLess(z, Int64Cutoff))

RECURSIVE DigitsValue(_)
DigitsValue(d) == IF d = <<>> THEN 0
                  ELSE 10 * DigitsValue(SubSeq(d, 1, Len(d) - 1)) + DigitVal(d[Len(d)])

\* strconv.ParseInt(s, 10, 64): an optional sign, then decimal digits, the
\* value within int64
ParseInt(s) ==
    LET neg == s # <<>> /\ Head(s) = "-"
        d   == IF s # <<>> /\ Head(s) \in {"+", "-"} THEN Tail(s) ELSE s
        bad == [err |-> TRUE, val |-> 0]
    IN  IF d = <<>> \/ \E i \in 1..Len(d) : ~IsDigit(d[i]) THEN bad
        ELSE IF ~BelowCutoff(d) /\ ~(neg /\ StripZeros(d) = Int64Cutoff) THEN bad
        ELSE [err |-> FALSE,
              val |-> IF neg THEN 0 - DigitsValue(StripZeros(d))
                      ELSE DigitsValue(StripZeros(d))]

(***************************************************************************)
(* Byte payloads, object keys and header values are run-length sequences   *)
(* of <<c, n>> (n > 0, neighbouring runs differ in c): n copies of c.      *)
(***************************************************************************)
\* len(s)
RECURSIVE Size(_)
Size(s) == IF s = <<>> THEN 0 ELSE Head(s)[2] + Size(Tail(s))

\* append(a, b...)
Concat(a, b) ==
    IF a = <<>> THEN b
    ELSE IF b = <<>> THEN a
    ELSE IF a[Len(a)][1] = b[1][1]
    THEN SubSeq(a, 1, Len(a) - 1) \o <<<<b[1][1], a[Len(a)][2] + b[1][2]>>>> \o Tail(b)
    ELSE a \o b

\* s[k:]
RECURSIVE Drop(_, _)
Drop(s, k) ==
    IF k <= 0 \/ s = <<>> THEN s
    ELSE IF Head(s)[2] <= k THEN Drop(Tail(s), k - Head(s)[2])
    ELSE <<<<Head(s)[1], Head(s)[2] - k>>>> \o Tail(s)

\* s[:k]
RECURSIVE Take(_, _)
Take(s, k) ==
    IF k <= 0 \/ s = <<>> THEN <<>>
    ELSE IF Head(s)[2] <= k THEN <<Head(s)>> \o Take(Tail(s), k - Head(s)[2])
    ELSE <<<<Head(s)[1], k>>>>

\* s[start : start+length]
Slice(s, start, length) == Take(Drop(s, start), length)

\* the run-length form of a sequence of characters or bytes
RECURSIVE Runs(_)
Runs(cs) == IF cs = <<>> THEN <<>> ELSE Concat(<<<<Head(cs), 1>>>>, Runs(Tail(cs)))

(***************************************************************************)
(* crypto/md5, encoding/hex, encoding/base64                               *)
(***************************************************************************)
RECURSIVE Mix(_, _)
Mix(s, acc) ==
    IF s = <<>> THEN acc
    ELSE Mix(Tail(s), (acc * 31 + Head(s)[1] * 7 + Head(s)[2]) % 65536)

\* md5.Sum: a two-byte digest stands for the sixteen of MD5
MD5(body) == LET m == Mix(body, 17) IN <<m \div 256, m % 256>>

HexDigits == <<"0", "1", "2", "3", "4", "5", "6", "7", "8", "9",
               "a", "b", "c", "d", "e", "f">>

\* hex.EncodeToString
RECURSIVE HexEncode(_)
HexEncode(bs) ==
    IF bs = <<>> THEN ""
    ELSE HexDigits[(Head(bs) \div 16) + 1] \o HexDigits[(Head(bs) % 16) + 1]
             \o HexEncode(Tail(bs))

B64 == <<"A", "B", "C", "D", "E", "F", "G", "H", "I", "J", "K", "L", "M",
         "N", "O", "P", "Q", "R", "S", "T", "U", "V", "W", "X", "Y", "Z",
         "a", "b", "c", "d", "e", "f", "g", "h", "i", "j", "k", "l", "m",
         "n", "o", "p", "q", "r", "s", "t", "u", "v", "w", "x", "y", "z",
         "0", "1", "2", "3", "4", "5", "6", "7", "8", "9", "+", "/">>

B64Val(c) == (CHOOSE i \in 1..64 : B64[i] = c) - 1

\* base64.StdEncoding.EncodeToString
RECURSIVE B64Encode(_)
B64Encode(b) ==
    IF b = <<>> THEN <<>>
    ELSE IF Len(b) = 1
    THEN <<B64[(b[1] \div 4) + 1], B64[((b[1] % 4) * 16) + 1], "=", "=">>
    ELSE IF Len(b) = 2
    THEN <<B64[(b[1] \div 4) + 1], B64[((b[1] % 4) * 16) + (b[2] \div 16) + 1],
           B64[((b[2] % 16) * 4) + 1], "=">>
    ELSE <<B64[(b[1] \div 4) + 1], B64[((b[1] % 4) * 16) + (b[2] \div 16) + 1],
           B64[((b[2] % 16) * 4) + (b[3] \div 64) + 1], B64[(b[3] % 64) + 1]>>
             \o B64Encode(SubSeq(b, 4, Len(b)))

RECURSIVE B64Groups(_)
B64Groups(s) ==
    IF s = <<>> THEN <<>>
    ELSE LET v1 == B64Val(s[1])
             v2 == B64Val(s[2])
         IN  IF s[3] = "=" THEN <<(v1 * 4) + (v2 \div 16)>>
             ELSE IF s[4] = "="
             THEN <<(v1 * 4) + (v2 \div 16), ((v2 % 16) * 16) + (B64Val(s[3]) \div 4)>>
             ELSE <<(v1 * 4) + (v2 \div 16), ((v2 % 16) * 16) + (B64Val(s[3]) \div 4),
                    ((B64Val(s[3]) % 4) * 64) + B64Val(s[4])>>
                      \o B64Groups(SubSeq(s, 5, Len(s)))

\* base64.StdEncoding.DecodeString: padded groups of four characters
B64Decode(s) ==
    LET n   == Len(s)
        pad == IF n >= 2 /\ s[n] = "=" /\ s[n - 1] = "=" THEN 2
               ELSE IF n >= 1 /\ s[n] = "=" THEN 1 ELSE 0
        ok  == /\ n % 4 = 0
               /\ \A i \in 1..(n - pad) : \E j \in 1..64 : B64[j] = s[i]
    IN  IF ok THEN [err |-> FALSE, bytes |-> B64Groups(s)]
        ELSE [err |-> TRUE, bytes |-> <<>>]

(***************************************************************************)
(* range.go                                                                *)
(***************************************************************************)
RangeNoEnd == -1

\* a *ObjectRangeRequest: nil, or the struct
NilRequest == [nil |-> TRUE, Start |-> 0, End |-> 0, FromEnd |-> FALSE]

\* a *ObjectRange: nil, or the struct
NilObjectRange == [nil |-> TRUE, Start |-> 0, Length |-> 0]

BytesUnit == <<"b", "y", "t", "e", "s", "=">>

ErrNone == "OK"
ErrInvalidRange == "InvalidRange"

\* the bound checks of parseRangeHeader once the range is split at the dash
ParseBounds(start, end) ==
    LET invalid == [err |-> ErrInvalidRange, req |-> NilRequest]
    IN  IF start = <<>>
        THEN LET i == ParseInt(end)
             IN  IF i.err THEN invalid
                 ELSE [err |-> ErrNone,
                       req |-> [nil |-> FALSE, Start |-> 0, End |-> i.val, FromEnd |-> TRUE]]
        ELSE LET i == ParseInt(start)
             IN  IF i.err \/ i.val < 0 THEN invalid
                 ELSE IF end # <<>>
                 THEN LET j == ParseInt(end)
                      IN  IF j.err \/ i.val > j.val THEN invalid
                          ELSE [err |-> ErrNone,
                                req |-> [nil |-> FALSE, Start |-> i.val, End |-> j.val,
                                         FromEnd |-> FALSE]]
                 ELSE [err |-> ErrNone,
                       req |-> [nil |-> FALSE, Start |-> i.val, End |-> RangeNoEnd,
                                FromEnd |-> FALSE]]

\* parseRangeHeader taking the first of several ranges
parseRangeHeader_FirstOfMany(s) ==
    LET invalid == [err |-> ErrInvalidRange, req |-> NilRequest]
    IN  IF s = <<>> THEN [err |-> ErrNone, req |-> NilRequest]
        ELSE IF ~HasPrefix(s, BytesUnit) THEN invalid
        ELSE LET ranges == Split(SubSeq(s, Len(BytesUnit) + 1, Len(s)), ",")
                 rnge   == TrimSpace(ranges[1])
                 i      == IndexOf(rnge, "-")
             IN  IF Len(rnge) = 0 THEN invalid
                 ELSE IF i < 0 THEN invalid
                 ELSE ParseBounds(TrimSpace(SubSeq(rnge, 1, i)),
                                  TrimSpace(SubSeq(rnge, i + 2, Len(rnge))))

\* parseRangeHeader(s)
parseRangeHeader(s) ==
    LET invalid == [err |-> ErrInvalidRange, req |-> NilRequest]
    IN  IF s = <<>> THEN [err |-> ErrNone, req |-> NilRequest]
        ELSE IF ~HasPrefix(s, BytesUnit) THEN invalid
        ELSE LET ranges == Split(SubSeq(s, Len(BytesUnit) + 1, Len(s)), ",")
             IN  IF Len(ranges) > 1 THEN invalid
                 ELSE LET rnge == TrimSpace(ranges[1])
                          i    == IndexOf(rnge, "-")
                      IN  IF Len(rnge) = 0 THEN invalid
                          ELSE IF i < 0 THEN invalid
                          ELSE ParseBounds(TrimSpace(SubSeq(rnge, 1, i)),
                                           TrimSpace(SubSeq(rnge, i + 2, Len(rnge))))

\* Range with the end clamped one byte late (end > size for end >= size)
Range_ClampLate(o, size) ==
    IF o.nil THEN NilObjectRange
    ELSE IF ~o.FromEnd
    THEN IF o.End = RangeNoEnd
         THEN [nil |-> FALSE, Start |-> o.Start, Length |-> size - o.Start]
         ELSE LET end == IF o.End > size THEN size - 1 ELSE o.End
              IN  [nil |-> FALSE, Start |-> o.Start, Length |-> end - o.Start + 1]
    ELSE LET end   == IF o.End > size THEN size ELSE o.End
             start == size - end
         IN  [nil |-> FALSE, Start |-> start, Length |-> size - start]

\* (*ObjectRangeRequest).Range(size)
Range(o, size) ==
    IF o.nil THEN NilObjectRange
    ELSE IF ~o.FromEnd
    THEN IF o.End = RangeNoEnd
         THEN [nil |-> FALSE, Start |-> o.Start, Length |-> size - o.Start]
         ELSE LET end == IF o.End >= size THEN size - 1 ELSE o.End
              IN  [nil |-> FALSE, Start |-> o.Start, Length |-> end - o.Start + 1]
    ELSE LET end   == IF o.End > size THEN size ELSE o.End
             start == size - end
         IN  [nil |-> FALSE, Start |-> start, Length |-> size - start]

\* (*ObjectRange).writeHeader(sz, w): the headers it sets
writeHeader(o, sz) ==
    IF ~o.nil
    THEN ("Content-Length" :> DecStr(o.Length))
             @@ ("Content-Range" :> (<<"b", "y", "t", "e", "s", " ">> \o DecStr(o.Start)
                    \o <<"-">> \o DecStr(o.Start + o.Length - 1) \o <<"/">> \o DecStr(sz)))
    ELSE "Content-Length" :> DecStr(sz)

(***************************************************************************)
(* Error codes and their HTTP status.                                      *)
(***************************************************************************)
ErrNoSuchBucket == "NoSuchBucket"
ErrNoSuchKey == "NoSuchKey"
ErrNoSuchUpload == "NoSuchUpload"
ErrBucketAlreadyExists == "BucketAlreadyExists"
ErrBucketNotEmpty == "BucketNotEmpty"
ErrInvalidBucketName == "InvalidBucketName"
ErrInvalidPart == "InvalidPart"
ErrInvalidPartOrder == "InvalidPartOrder"
ErrInvalidDigest == "InvalidDigest"
ErrBadDigest == "BadDigest"
ErrEntityTooSmall == "EntityTooSmall"
ErrKeyTooLong == "KeyTooLong"
ErrMetadataTooLarge == "MetadataTooLarge"
ErrMalformedXML == "MalformedXML"
ErrMissingContentLength == "MissingContentLength"
ErrIncompleteBody == "IncompleteBody"
ErrInvalidURI == "InvalidURI"
ErrRequestTimeTooSkewed == "RequestTimeTooSkewed"
ErrMalformedPOSTRequest == "MalformedPOSTRequest"
ErrIncorrectNumberOfFilesInPostRequest == "IncorrectNumberOfFilesInPostRequest"
ErrNotImplemented == "NotImplemented"

StatusOK == 200

\* ErrorCode.Status()
Status(code) ==
    CASE code \in {ErrNoSuchBucket, ErrNoSuchKey, ErrNoSuchUpload} -> 404
      [] code \in {ErrBucketAlreadyExists, ErrBucketNotEmpty} -> 409
      [] code = ErrInvalidRange -> 416
      [] code = ErrMissingContentLength -> 411
      [] code = ErrRequestTimeTooSkewed -> 403
      [] code = ErrNotImplemented -> 501
      [] OTHER -> 400

(***************************************************************************)
(* gofakes3.go: constants and helpers                                      *)
(***************************************************************************)
KeySizeLimit == 1024
DefaultMetadataSizeLimit == 2000

EmptyMap == [x \in {} |-> <<>>]

\* http.Header.Get: the first value of the header under the canonical form of
\* the name, or ""
Get(h, name) ==
    LET key == CASE name = "Content-MD5" -> "Content-Md5"
                 [] name = "x-amz-date" -> "X-Amz-Date"
                 [] OTHER -> name
    IN  IF key \in DOMAIN h THEN h[key][1] ELSE <<>>

Pad2(n) == IF n < 10 THEN <<"0">> \o NatStr(n) ELSE NatStr(n)

\* formatHeaderTime(t): "Mon, 02 Jan 2006 15:04:05" and " GMT", for a time t
\* minutes into the first day of the epoch
formatHeaderTime(t) ==
    Runs(<<"T", "h", "u", ",", " ", "0", "1", " ", "J", "a", "n", " ",
           "1", "9", "7", "0", " ">>
         \o Pad2(t \div 60) \o <<":">> \o Pad2(t % 60) \o <<":", "0", "0">>
         \o <<" ", "G", "M", "T">>)

\* metadataSize(meta)
RECURSIVE metadataSize(_)
metadataSize(meta) ==
    IF DOMAIN meta = {} THEN 0
    ELSE LET k == CHOOSE x \in DOMAIN meta : TRUE
         IN  Len(k) + Size(meta[k])
               + metadataSize([x \in DOMAIN meta \ {k} |-> meta[x]])

\* metadataHeaders(headers, at, sizeLimit)
metadataHeaders(headers, at, sizeLimit) ==
    LET amz  == {hk \in DOMAIN headers : HasPrefix(hk, "X-Amz-")}
        meta == ("Last-Modified" :> formatHeaderTime(at)) @@ [hk \in amz |-> headers[hk][1]]
    IN  [meta |-> meta,
         err  |-> IF sizeLimit > 0 /\ metadataSize(meta) > sizeLimit
                  THEN ErrMetadataTooLarge ELSE ErrNone]

\* the ETag header without its quotes
ETagHeader_Unquoted(hash) == HexEncode(hash)

\* the ETag header of getObject and headObject: "\"" + hex.EncodeToString(hash) + "\""
ETagHeader(hash) == "\"" \o HexEncode(hash) \o "\""

\* the ETag createObject and createObjectBrowserUpload answer with
FixedETag == "\"fbacf535f27731c9771645a39863328\""

\* the x-amz-id-2 and x-amz-request-id every handler answers with
AmzIdHeaders ==
    ("X-Amz-Request-Id" :> "0A49CE4060975EAC")
        @@ ("X-Amz-Id-2" :> "LriYPLdmOdAiIfgSm/F1YsViT1LW94/xUQxMsF7xiEb1a0wiIOIxl+zbwZ163pt7")

(***************************************************************************)
(* The integrity reader: a reader is its data and the error it gives at    *)
(* the end of the data.                                                    *)
(***************************************************************************)
Reader(data) == [data |-> data, eof |-> ErrNone]

\* newHashingReader(inner, expectedMD5Base64)
newHashingReader(inner, md5Base64) ==
    LET d == B64Decode(md5Base64)
    IN  IF d.err THEN [err |-> ErrInvalidDigest, rdr |-> inner]
        ELSE [err |-> ErrNone,
              rdr |-> [data |-> inner.data,
                       eof  |-> IF inner.eof # ErrNone THEN inner.eof
                                ELSE IF d.bytes # MD5(inner.data) THEN ErrBadDigest
                                ELSE ErrNone]]

\* ReadAll(r, size): exactly size bytes, then the end of the data
ReadAll(rdr, size) ==
    IF Size(rdr.data) # size THEN [err |-> ErrIncompleteBody, body |-> <<>>]
    ELSE IF rdr.eof # ErrNone THEN [err |-> rdr.eof, body |-> <<>>]
    ELSE [err |-> ErrNone, body |-> rdr.data]

(***************************************************************************)
(* The backend: the operations of the Backend interface on the store       *)
(* (bkts, objs); each returns its error and the store it leaves.           *)
(***************************************************************************)
\* ValidateBucketName(name)
ValidateBucketName(name) ==
    LET n      == Len(name)
        ch(i)  == SubSeq(name, i, i)
        labels == {"a", "b", "c", "d", "e", "f", "g", "h", "i", "j", "k", "l", "m",
                   "n", "o", "p", "q", "r", "s", "t", "u", "v", "w", "x", "y", "z",
                   "0", "1", "2", "3", "4", "5", "6", "7", "8", "9"}
        digits == {"0", "1", "2", "3", "4", "5", "6", "7", "8", "9"}
        dots   == Cardinality({i \in 1..n : ch(i) = "."})
    IN  IF /\ n >= 3
           /\ n <= 63
           /\ \A i \in 1..n : ch(i) \in labels \cup {"-", "."}
           /\ ch(1) # "-"
           /\ ch(n) # "-"
           /\ \A i \in 1..(n - 1) : ~(ch(i) = "." /\ ch(i + 1) = ".")
           /\ ~(dots = 3 /\ \A i \in 1..n : ch(i) \in digits \cup {"."})
        THEN ErrNone ELSE ErrInvalidBucketName

BucketKeys(objs, bucket) == {p \in DOMAIN objs : p[1] = bucket}

\* Backend.BucketExists
BucketExists(bkts, bucket) == bucket \in bkts

\* Backend.CreateBucket
CreateBucket(bkts, bucket) ==
    IF bucket \in bkts THEN [err |-> ErrBucketAlreadyExists, buckets |-> bkts]
    ELSE [err |-> ErrNone, buckets |-> bkts \cup {bucket}]

\* Backend.DeleteBucket
DeleteBucket(bkts, objs, bucket) ==
    IF bucket \notin bkts THEN [err |-> ErrNoSuchBucket, buckets |-> bkts]
    ELSE IF BucketKeys(objs, bucket) # {} THEN [err |-> ErrBucketNotEmpty, buckets |-> bkts]
    ELSE [err |-> ErrNone, buckets |-> bkts \ {bucket}]

\* Backend.PutObject: reads the whole reader, then stores
PutObject(bkts, objs, bucket, key, meta, rdr, size) ==
    LET in == ReadAll(rdr, size)
    IN  IF bucket \notin bkts THEN [err |-> ErrNoSuchBucket, objects |-> objs]
        ELSE IF in.err # ErrNone THEN [err |-> in.err, objects |-> objs]
        ELSE [err |-> ErrNone,
              objects |-> (<<bucket, key>> :> [Contents |-> in.body, Hash |-> MD5(in.body),
                                               Metadata |-> meta, Size |-> Size(in.body)])
                              @@ objs]

NoObject == [Contents |-> <<>>, Hash |-> <<>>, Metadata |-> EmptyMap, Size |-> 0,
             Range |-> NilObjectRange]

\* Backend.GetObject: the object with the contents the resolved range selects
GetObject(bkts, objs, bucket, key, rnge) ==
    IF bucket \notin bkts THEN [err |-> ErrNoSuchBucket, obj |-> NoObject]
    ELSE IF <<bucket, key>> \notin DOMAIN objs THEN [err |-> ErrNoSuchKey, obj |-> NoObject]
    ELSE LET o == objs[<<bucket, key>>]
             r == Range(rnge, o.Size)
         IN  IF r.nil
             THEN [err |-> ErrNone,
                   obj |-> [Contents |-> o.Contents, Hash |-> o.Hash,
                            Metadata |-> o.Metadata, Size |-> o.Size, Range |-> r]]
             ELSE IF r.Start < 0 \/ r.Length < 0 \/ r.Start + r.Length > o.Size
             THEN [err |-> ErrInvalidRange, obj |-> NoObject]
             ELSE [err |-> ErrNone,
                   obj |-> [Contents |-> Slice(o.Contents, r.Start, r.Length),
                            Hash |-> o.Hash, Metadata |-> o.Metadata, Size |-> o.Size,
                            Range |-> r]]

\* Backend.DeleteObject: a missing key is no error
DeleteObject(bkts, objs, bucket, key) ==
    IF bucket \notin bkts THEN [err |-> ErrNoSuchBucket, objects |-> objs]
    ELSE [err |-> ErrNone,
          objects |-> [p \in DOMAIN objs \ {<<bucket, key>>} |-> objs[p]]]

(***************************************************************************)
(* gofakes3.go: the handlers.  Each gives the response and the store left. *)
(***************************************************************************)
NoRequest == [Header |-> EmptyMap, Query |-> EmptyMap, Body |-> <<>>]

\* a response: the handler that gave it and what it was asked (the bucket, the
\* key, the Range header, and the request r of a PUT), the error returned, and
\* the status, headers and body written; calls are the backend calls made
NoResp == [op |-> "none", bucket |-> "", key |-> <<>>, rangeHdr |-> <<>>,
           r |-> NoRequest,
           err |-> ErrNone, status |-> 0, hdrs |-> EmptyMap, body |-> <<>>,
           calls |-> <<>>]

\* httpError: the status of the error code; the XML body is not modelled
httpError(rsp, err) == [rsp EXCEPT !.err = err, !.status = Status(err)]

\* the status of a response the handler wrote no status for
Written(rsp, hdrs, body) ==
    [rsp EXCEPT !.status = StatusOK, !.hdrs = hdrs, !.body = body]

\* the headers and body getObject writes for the object the backend gave; the
\* header names are in the canonical form http.Header.Set gives them
getObjectResponse(rsp, obj, at) ==
    Written(rsp,
            ("Accept-Ranges" :> "bytes")
                @@ ("Server" :> "AmazonS3")
                @@ ("Etag" :> ETagHeader(obj.Hash))
                @@ ("Last-Modified" :> formatHeaderTime(at))
                @@ [mk \in DOMAIN obj.Metadata |-> obj.Metadata[mk]]
                @@ AmzIdHeaders
                @@ writeHeader(obj.Range, obj.Size),
            obj.Contents)

\* getObject(bucket, object, w, r)
getObject(st, bucket, object, r) ==
    LET rsp  == [NoResp EXCEPT !.op = "getObject", !.bucket = bucket, !.key = object,
                               !.rangeHdr = Get(r.Header, "Range")]
        rnge == parseRangeHeader(Get(r.Header, "Range"))
        got  == GetObject(st.buckets, st.objects, bucket, object, rnge.req)
        call == [rsp EXCEPT !.calls = <<"GetObject">>]
    IN  IF rnge.err # ErrNone THEN [resp |-> httpError(rsp, rnge.err), st |-> st]
        ELSE IF got.err # ErrNone THEN [resp |-> httpError(call, got.err), st |-> st]
        ELSE [resp |-> getObjectResponse(call, got.obj, st.now), st |-> st]

\* the PUT that hands the body to the backend without the hashing reader
createObject_Unchecked(st, bucket, object, r) ==
    LET rsp  == [NoResp EXCEPT !.op = "createObject", !.bucket = bucket, !.key = object,
                               !.r = r]
        meta == metadataHeaders(r.Header, st.now, st.cfg.metadataSizeLimit)
        size == ParseInt(Get(r.Header, "Content-Length"))
        hrd  == [err |-> ErrNone, rdr |-> Reader(r.Body)]
        put  == PutObject(st.buckets, st.objects, bucket, object, meta.meta, hrd.rdr,
                          size.val)
        call == [rsp EXCEPT !.calls = <<"PutObject">>]
    IN  IF meta.err # ErrNone THEN [resp |-> httpError(rsp, meta.err), st |-> st]
        ELSE IF size.err \/ size.val <= 0
        THEN [resp |-> httpError(rsp, ErrMissingContentLength), st |-> st]
        ELSE IF Size(object) > KeySizeLimit
        THEN [resp |-> httpError(rsp, ErrKeyTooLong), st |-> st]
        ELSE IF hrd.err # ErrNone THEN [resp |-> httpError(rsp, hrd.err), st |-> st]
        ELSE IF put.err # ErrNone THEN [resp |-> httpError(call, put.err), st |-> st]
        ELSE [resp |-> Written(call,
                               ("Server" :> "AmazonS3") @@ ("Etag" :> FixedETag)
                                   @@ AmzIdHeaders
                                   @@ ("Access-Control-Allow-Origin" :> "*"),
                               <<>>),
              st |-> [st EXCEPT !.objects = put.objects]]

\* createObject(bucket, object, w, r)
createObject(st, bucket, object, r) ==
    LET rsp  == [NoResp EXCEPT !.op = "createObject", !.bucket = bucket, !.key = object,
                               !.r = r]
        meta == metadataHeaders(r.Header, st.now, st.cfg.metadataSizeLimit)
        size == ParseInt(Get(r.Header, "Content-Length"))
        md5  == Get(r.Header, "Content-MD5")
        hrd  == IF st.cfg.integrityCheck /\ md5 # <<>>
                THEN newHashingReader(Reader(r.Body), md5)
                ELSE [err |-> ErrNone, rdr |-> Reader(r.Body)]
        put  == PutObject(st.buckets, st.objects, bucket, object, meta.meta, hrd.rdr,
                          size.val)
        call == [rsp EXCEPT !.calls = <<"PutObject">>]
    IN  IF meta.err # ErrNone THEN [resp |-> httpError(rsp, meta.err), st |-> st]
        ELSE IF size.err \/ size.val <= 0
        THEN [resp |-> httpError(rsp, ErrMissingContentLength), st |-> st]
        ELSE IF Size(object) > KeySizeLimit
        THEN [resp |-> httpError(rsp, ErrKeyTooLong), st |-> st]
        ELSE IF hrd.err # ErrNone THEN [resp |-> httpError(rsp, hrd.err), st |-> st]
        ELSE IF put.err # ErrNone THEN [resp |-> httpError(call, put.err), st |-> st]
        ELSE [resp |-> Written(call,
                               ("Server" :> "AmazonS3") @@ ("Etag" :> FixedETag)
                                   @@ AmzIdHeaders
                                   @@ ("Access-Control-Allow-Origin" :> "*"),
                               <<>>),
              st |-> [st EXCEPT !.objects = put.objects]]

\* deleteObject(bucket, object, w, r)
deleteObject(st, bucket, object) ==
    LET rsp  == [NoResp EXCEPT !.op = "deleteObject", !.bucket = bucket, !.key = object,
                               !.calls = <<"DeleteObject">>]
        del  == DeleteObject(st.buckets, st.objects, bucket, object)
    IN  IF del.err # ErrNone THEN [resp |-> httpError(rsp, del.err), st |-> st]
        ELSE [resp |-> Written(rsp,
                               "X-Amz-Delete-Marker" :> "false",
                               <<>>),
              st |-> [st EXCEPT !.objects = del.objects]]

\* createBucket(bucket, w, r)
createBucket(st, bucket, r) ==
    LET rsp  == [NoResp EXCEPT !.op = "createBucket", !.bucket = bucket]
        crt  == CreateBucket(st.buckets, bucket)
        call == [rsp EXCEPT !.calls = <<"CreateBucket">>]
    IN  IF ValidateBucketName(bucket) # ErrNone
        THEN [resp |-> httpError(rsp, ValidateBucketName(bucket)), st |-> st]
        ELSE IF crt.err # ErrNone THEN [resp |-> httpError(call, crt.err), st |-> st]
        ELSE [resp |-> Written(call,
                               ("Location" :> ("/" \o bucket))
                                   @@ ("Host" :> Get(r.Header, "Host")),
                               <<>>),
              st |-> [st EXCEPT !.buckets = crt.buckets]]

\* the delete that drops the backend's error
deleteBucket_ErrorDropped(st, bucket) ==
    LET rsp  == [NoResp EXCEPT !.op = "deleteBucket", !.bucket = bucket,
                               !.calls = <<"DeleteBucket">>]
        del  == DeleteBucket(st.buckets, st.objects, bucket)
    IN  [resp |-> Written(rsp, EmptyMap, <<>>),
         st |-> [st EXCEPT !.buckets = del.buckets]]

\* deleteBucket(bucket, w, r)
deleteBucket(st, bucket) ==
    LET rsp  == [NoResp EXCEPT !.op = "deleteBucket", !.bucket = bucket,
                               !.calls = <<"DeleteBucket">>]
        del  == DeleteBucket(st.buckets, st.objects, bucket)
    IN  IF del.err # ErrNone THEN [resp |-> httpError(rsp, del.err), st |-> st]
        ELSE [resp |-> Written(rsp, EmptyMap, <<>>),
              st |-> [st EXCEPT !.buckets = del.buckets]]

(***************************************************************************)
(* The multipart uploader: the registry holds the ids of the uploads in    *)
(* progress, and an upload object lives on after it has left the registry  *)
(* for as long as a request holds the reference it was given.  u is the    *)
(* uploader's state, [registry, uploads].                                  *)
(***************************************************************************)
DefaultUploadPartSize == 5000000
MaxUploadsLimit == 1000
DefaultMaxUploads == 1000
MaxUploadPartsLimit == 1000
DefaultMaxUploadParts == 1000
MaxUploadPartNumber == 10000

\* the string of a sequence of characters
RECURSIVE StringOf(_)
StringOf(cs) == IF cs = <<>> THEN "" ELSE Head(cs) \o StringOf(Tail(cs))

\* uploader.Begin(bucket, object, meta, initiated): a new id, never given before
Begin(u, bucket, object, meta, at) ==
    LET id == Cardinality(DOMAIN u.uploads) + 1
    IN  [id |-> id,
         u  |-> [registry |-> u.registry \cup {id},
                 uploads  |-> (id :> [ID |-> id, Bucket |-> bucket, Object |-> object,
                                      Meta |-> meta, Initiated |-> at,
                                      parts |-> EmptyMap])
                                  @@ u.uploads]]

\* uploader.Get(bucket, object, id): the reference to a registered upload
uploaderGet(u, bucket, object, id) ==
    IF id \in u.registry THEN [err |-> ErrNone, upload |-> id]
    ELSE [err |-> ErrNoSuchUpload, upload |-> 0]

\* uploader.Complete(bucket, object, id): the registered upload, taken out of the
\* registry under the registry's mutex
uploaderComplete(u, bucket, object, id) ==
    IF id \in u.registry
    THEN [err |-> ErrNone, upload |-> id, u |-> [u EXCEPT !.registry = @ \ {id}]]
    ELSE [err |-> ErrNoSuchUpload, upload |-> 0, u |-> u]

\* (*multipartUpload).AddPart(partNumber, at, body), under the upload's mutex
AddPart(up, partNumber, at, body) ==
    IF partNumber < 1 \/ partNumber > MaxUploadPartNumber
    THEN [err |-> ErrInvalidPart, etag |-> "", upload |-> up]
    ELSE [err |-> ErrNone, etag |-> ETagHeader(MD5(body)),
          upload |-> [up EXCEPT !.parts =
                         (partNumber :> [ETag |-> ETagHeader(MD5(body)), Body |-> body,
                                         LastModified |-> at]) @@ @]]

\* the bytes of the listed parts, in the order of the list
RECURSIVE ConcatParts(_, _)
ConcatParts(parts, list) ==
    IF list = <<>> THEN <<>>
    ELSE Concat(parts[Head(list).PartNumber].Body, ConcatParts(parts, Tail(list)))

\* the MD5 hashes of the listed parts, one after the other
RECURSIVE ConcatHashes(_, _)
ConcatHashes(parts, list) ==
    IF list = <<>> THEN <<>>
    ELSE MD5(parts[Head(list).PartNumber].Body) \o ConcatHashes(parts, Tail(list))

\* the composite ETag: "<hex(md5(hash_1 .. hash_n))>-<n>", quoted
CompositeETag(parts, list) ==
    "\"" \o HexEncode(MD5(Runs(ConcatHashes(parts, list)))) \o "-"
         \o StringOf(NatStr(Len(list))) \o "\""

\* (*multipartUpload).Reassemble(input), under the upload's mutex
Reassemble(up, in) ==
    LET list == in.Parts
        n    == Len(list)
        fail(e) == [err |-> e, body |-> <<>>, etag |-> ""]
    IN  IF \E i \in 1..(n - 1) : list[i].PartNumber >= list[i + 1].PartNumber
        THEN fail(ErrInvalidPartOrder)
        ELSE IF \E i \in 1..n : \/ list[i].PartNumber \notin DOMAIN up.parts
                                \/ up.parts[list[i].PartNumber].ETag # list[i].ETag
        THEN fail(ErrInvalidPart)
        ELSE IF \E i \in 1..(n - 1) :
                    Size(up.parts[list[i].PartNumber].Body) < DefaultUploadPartSize
        THEN fail(ErrEntityTooSmall)
        ELSE [err |-> ErrNone, body |-> ConcatParts(up.parts, list),
              etag |-> CompositeETag(up.parts, list)]

\* the numbers of a set in ascending order
RECURSIVE Ascending(_)
Ascending(ns) ==
    IF ns = {} THEN <<>>
    ELSE LET m == CHOOSE x \in ns : \A y \in ns : x <= y
         IN  <<m>> \o Ascending(ns \ {m})

\* uploader.ListParts(bucket, object, id, marker, limit)
ListParts(u, bucket, object, id, marker, limit) ==
    IF id \notin u.registry
    THEN [err |-> ErrNoSuchUpload, Parts |-> <<>>, IsTruncated |-> FALSE]
    ELSE LET parts == u.uploads[id].parts
             nums  == Ascending({pn \in DOMAIN parts : pn > marker})
             shown == SubSeq(nums, 1, IF Len(nums) < limit THEN Len(nums) ELSE limit)
         IN  [err |-> ErrNone,
              Parts |-> [i \in 1..Len(shown) |->
                            [PartNumber |-> shown[i], ETag |-> parts[shown[i]].ETag,
                             Size |-> Size(parts[shown[i]].Body)]],
              IsTruncated |-> Len(shown) < Len(nums)]

\* uploader.List(bucket, marker, prefix, limit), for requests that give neither a
\* marker nor a prefix: the uploads of the bucket in the order of their ids
uploaderList(u, bucket, limit) ==
    LET ids   == Ascending({id \in u.registry : u.uploads[id].Bucket = bucket})
        shown == SubSeq(ids, 1, IF Len(ids) < limit THEN Len(ids) ELSE limit)
    IN  [err |-> ErrNone,
         Uploads |-> [i \in 1..Len(shown) |->
                         [Key |-> u.uploads[shown[i]].Object, UploadID |-> shown[i]]],
         IsTruncated |-> Len(shown) < Len(ids)]

\* math.MaxInt64, as far as the integers of the model go; no input exceeds it
MaxInt64 == 2147483647

\* parseClampedInt(in, defaultValue, min, max)
parseClampedInt(in, defaultValue, min, max) ==
    LET p == ParseInt(in)
    IN  IF in = <<>> THEN [err |-> FALSE, val |-> defaultValue]
        ELSE IF p.err THEN [err |-> TRUE, val |-> defaultValue]
        ELSE IF p.val < min THEN [err |-> FALSE, val |-> min]
        ELSE IF p.val > max THEN [err |-> FALSE, val |-> max]
        ELSE [err |-> FALSE, val |-> p.val]

\* url.Values.Get: the value of the query parameter, or ""
QueryGet(q, name) == IF name \in DOMAIN q THEN q[name] ELSE <<>>

\* the tokens of a CompleteMultipartUpload document
OpenTag == [tag |-> "<CompleteMultipartUpload>", PartNumber |-> 0, ETag |-> ""]
CloseTag == [tag |-> "</CompleteMultipartUpload>", PartNumber |-> 0, ETag |-> ""]
PartTag(n, etag) == [tag |-> "<Part>", PartNumber |-> n, ETag |-> etag]

\* xml.Unmarshal into CompleteMultipartUploadRequest: the document is its tokens,
\* the opening tag, the Part elements and the closing tag
xmlUnmarshal(body) ==
    LET n == Len(body)
    IN  IF /\ n >= 2
           /\ body[1] = OpenTag
           /\ body[n] = CloseTag
           /\ \A i \in 2..(n - 1) : body[i].tag = "<Part>"
        THEN [err |-> FALSE,
              in  |-> [Parts |-> [i \in 1..(n - 2) |->
                                     [PartNumber |-> body[i + 1].PartNumber,
                                      ETag |-> body[i + 1].ETag]]]]
        ELSE [err |-> TRUE, in |-> [Parts |-> <<>>]]

(***************************************************************************)
(* gofakes3.go: the multipart handlers.  A handler that other requests can *)
(* overtake between two of its calls is given one operator for each part.  *)
(***************************************************************************)
\* ensureBucketExists(bucket)
ensureBucketExists(st, bucket) ==
    IF BucketExists(st.buckets, bucket) THEN ErrNone ELSE ErrNoSuchBucket

\* initiateMultipartUpload(bucket, object, w, r)
initiateMultipartUpload(st, u, bucket, object, r) ==
    LET meta == metadataHeaders(r.Header, st.now, st.cfg.metadataSizeLimit)
        bgn  == Begin(u, bucket, object, meta.meta, st.now)
    IN  IF meta.err # ErrNone THEN [err |-> meta.err, id |-> 0, u |-> u]
        ELSE IF ensureBucketExists(st, bucket) # ErrNone
        THEN [err |-> ensureBucketExists(st, bucket), id |-> 0, u |-> u]
        ELSE [err |-> ErrNone, id |-> bgn.id, u |-> bgn.u]

\* putMultipartUploadPart with the registry not asked for the upload
putPartLookup_Unregistered(u, bucket, object, uploadID, r) ==
    LET pn   == ParseInt(QueryGet(r.Query, "partNumber"))
        size == ParseInt(Get(r.Header, "Content-Length"))
    IN  IF pn.err \/ pn.val <= 0 \/ pn.val > MaxUploadPartNumber
        THEN [err |-> ErrInvalidPart, partNumber |-> 0, size |-> 0, upload |-> 0]
        ELSE IF size.err \/ size.val <= 0
        THEN [err |-> ErrMissingContentLength, partNumber |-> 0, size |-> 0, upload |-> 0]
        ELSE IF uploadID \notin DOMAIN u.uploads
        THEN [err |-> ErrNoSuchUpload, partNumber |-> 0, size |-> 0, upload |-> 0]
        ELSE [err |-> ErrNone, partNumber |-> pn.val, size |-> size.val,
              upload |-> uploadID]

\* putMultipartUploadPart that looks the upload up before it checks the request
putPartLookup_LookupFirst(u, bucket, object, uploadID, r) ==
    LET pn   == ParseInt(QueryGet(r.Query, "partNumber"))
        size == ParseInt(Get(r.Header, "Content-Length"))
        get  == uploaderGet(u, bucket, object, uploadID)
    IN  IF get.err # ErrNone
        THEN [err |-> get.err, partNumber |-> 0, size |-> 0, upload |-> 0]
        ELSE IF pn.err \/ pn.val <= 0 \/ pn.val > MaxUploadPartNumber
        THEN [err |-> ErrInvalidPart, partNumber |-> 0, size |-> 0, upload |-> 0]
        ELSE IF size.err \/ size.val <= 0
        THEN [err |-> ErrMissingContentLength, partNumber |-> 0, size |-> 0, upload |-> 0]
        ELSE [err |-> ErrNone, partNumber |-> pn.val, size |-> size.val,
              upload |-> get.upload]

\* putMultipartUploadPart(bucket, object, uploadID, w, r), up to uploader.Get: the
\* part number and Content-Length are checked, then the upload is looked up
putPartLookup(u, bucket, object, uploadID, r) ==
    LET pn   == ParseInt(QueryGet(r.Query, "partNumber"))
        size == ParseInt(Get(r.Header, "Content-Length"))
        get  == uploaderGet(u, bucket, object, uploadID)
    IN  IF pn.err \/ pn.val <= 0 \/ pn.val > MaxUploadPartNumber
        THEN [err |-> ErrInvalidPart, partNumber |-> 0, size |-> 0, upload |-> 0]
        ELSE IF size.err \/ size.val <= 0
        THEN [err |-> ErrMissingContentLength, partNumber |-> 0, size |-> 0, upload |-> 0]
        ELSE IF get.err # ErrNone
        THEN [err |-> get.err, partNumber |-> 0, size |-> 0, upload |-> 0]
        ELSE [err |-> ErrNone, partNumber |-> pn.val, size |-> size.val,
              upload |-> get.upload]

\* putMultipartUploadPart, from the reading of the body: the body is read through
\* the integrity reader and added to the upload the handler holds
putPartAdd(st, u, upload, partNumber, size, r) ==
    LET md5  == Get(r.Header, "Content-MD5")
        hrd  == IF st.cfg.integrityCheck /\ md5 # <<>>
                THEN newHashingReader(Reader(r.Body), md5)
                ELSE [err |-> ErrNone, rdr |-> Reader(r.Body)]
        in   == ReadAll(hrd.rdr, size)
        add  == AddPart(u.uploads[upload], partNumber, st.now, in.body)
        fail(e) == [err |-> e, etag |-> "", u |-> u]
    IN  IF hrd.err # ErrNone THEN fail(hrd.err)
        ELSE IF in.err # ErrNone THEN fail(in.err)
        ELSE IF Size(in.body) # size THEN fail(ErrIncompleteBody)
        ELSE IF add.err # ErrNone THEN fail(add.err)
        ELSE [err |-> ErrNone, etag |-> add.etag,
              u |-> [u EXCEPT !.uploads[upload] = add.upload]]

\* abortMultipartUpload that looks the upload up and leaves it registered
abortMultipartUpload_Get(u, bucket, object, uploadID) ==
    [err |-> uploaderGet(u, bucket, object, uploadID).err, u |-> u]

\* abortMultipartUpload(bucket, object, uploadID, w, r)
abortMultipartUpload(u, bucket, object, uploadID) ==
    LET cmp == uploaderComplete(u, bucket, object, uploadID)
    IN  [err |-> cmp.err, u |-> cmp.u]

\* completeMultipartUpload that looks the upload up and leaves it registered
completeLookup_Get(u, bucket, object, uploadID, r) ==
    LET xml == xmlUnmarshal(r.Body)
        get == uploaderGet(u, bucket, object, uploadID)
    IN  IF xml.err THEN [err |-> ErrMalformedXML, in |-> xml.in, upload |-> 0, u |-> u]
        ELSE IF get.err # ErrNone
        THEN [err |-> get.err, in |-> xml.in, upload |-> 0, u |-> u]
        ELSE [err |-> ErrNone, in |-> xml.in, upload |-> get.upload, u |-> u]

\* completeMultipartUpload(bucket, object, uploadID, w, r), up to
\* uploader.Complete: the body is parsed, then the upload is taken
completeLookup(u, bucket, object, uploadID, r) ==
    LET xml == xmlUnmarshal(r.Body)
        cmp == uploaderComplete(u, bucket, object, uploadID)
    IN  IF xml.err THEN [err |-> ErrMalformedXML, in |-> xml.in, upload |-> 0, u |-> u]
        ELSE IF cmp.err # ErrNone
        THEN [err |-> cmp.err, in |-> xml.in, upload |-> 0, u |-> u]
        ELSE [err |-> ErrNone, in |-> xml.in, upload |-> cmp.upload, u |-> cmp.u]

\* completeMultipartUpload that stores the object under the metadata of its own
\* request
completeAssemble_OwnMeta(st, u, bucket, object, upload, in) ==
    LET asm == Reassemble(u.uploads[upload], in)
        put == PutObject(st.buckets, st.objects, bucket, object,
                         metadataHeaders(EmptyMap, st.now, st.cfg.metadataSizeLimit).meta,
                         Reader(asm.body), Size(asm.body))
        fail(e, n) == [err |-> e, etag |-> "", body |-> <<>>, puts |-> n, st |-> st]
    IN  IF asm.err # ErrNone THEN fail(asm.err, 0)
        ELSE IF put.err # ErrNone THEN fail(put.err, 1)
        ELSE [err |-> ErrNone, etag |-> asm.etag, body |-> asm.body, puts |-> 1,
              st |-> [st EXCEPT !.objects = put.objects]]

\* completeMultipartUpload, from upload.Reassemble: the parts are assembled and
\* the object is stored under the metadata of the upload; puts is the number of
\* PutObject calls made
completeAssemble(st, u, bucket, object, upload, in) ==
    LET asm == Reassemble(u.uploads[upload], in)
        put == PutObject(st.buckets, st.objects, bucket, object,
                         u.uploads[upload].Meta, Reader(asm.body), Size(asm.body))
        fail(e, n) == [err |-> e, etag |-> "", body |-> <<>>, puts |-> n, st |-> st]
    IN  IF asm.err # ErrNone THEN fail(asm.err, 0)
        ELSE IF put.err # ErrNone THEN fail(put.err, 1)
        ELSE [err |-> ErrNone, etag |-> asm.etag, body |-> asm.body, puts |-> 1,
              st |-> [st EXCEPT !.objects = put.objects]]

\* listMultipartUploads(bucket, w, r)
listMultipartUploads(u, bucket, r) ==
    LET maxUploads == parseClampedInt(QueryGet(r.Query, "max-uploads"),
                                      DefaultMaxUploads, 0, MaxUploadsLimit)
        limit      == IF maxUploads.val = 0 THEN DefaultMaxUploads ELSE maxUploads.val
    IN  IF maxUploads.err
        THEN [err |-> ErrInvalidURI, Uploads |-> <<>>, IsTruncated |-> FALSE]
        ELSE uploaderList(u, bucket, limit)

\* listMultipartUploadParts that reads the parts of the upload object of the id
\* without asking the registry
listMultipartUploadParts_Detached(u, bucket, object, uploadID, r) ==
    LET marker   == parseClampedInt(QueryGet(r.Query, "part-number-marker"),
                                    0, 0, MaxInt64)
        maxParts == parseClampedInt(QueryGet(r.Query, "max-parts"),
                                    DefaultMaxUploadParts, 0, MaxUploadPartsLimit)
        fail(e)  == [err |-> e, Parts |-> <<>>, IsTruncated |-> FALSE]
    IN  IF marker.err THEN fail(ErrInvalidURI)
        ELSE IF maxParts.err THEN fail(ErrInvalidURI)
        ELSE IF uploadID \notin DOMAIN u.uploads THEN fail(ErrNoSuchUpload)
        ELSE ListParts([u EXCEPT !.registry = DOMAIN u.uploads], bucket, object,
                       uploadID, marker.val, maxParts.val)

\* listMultipartUploadParts(bucket, object, uploadID, w, r)
listMultipartUploadParts(u, bucket, object, uploadID, r) ==
    LET marker   == parseClampedInt(QueryGet(r.Query, "part-number-marker"),
                                    0, 0, MaxInt64)
        maxParts == parseClampedInt(QueryGet(r.Query, "max-parts"),
                                    DefaultMaxUploadParts, 0, MaxUploadPartsLimit)
        fail(e)  == [err |-> e, Parts |-> <<>>, IsTruncated |-> FALSE]
    IN  IF marker.err THEN fail(ErrInvalidURI)
        ELSE IF maxParts.err THEN fail(ErrInvalidURI)
        ELSE ListParts(u, bucket, object, uploadID, marker.val, maxParts.val)

(***************************************************************************)
(* gofakes3.go: headObject, and the backend call it makes.                 *)
(***************************************************************************)
\* Backend.HeadObject: the object without its contents
HeadObject(bkts, objs, bucket, key) ==
    IF bucket \notin bkts THEN [err |-> ErrNoSuchBucket, obj |-> NoObject]
    ELSE IF <<bucket, key>> \notin DOMAIN objs THEN [err |-> ErrNoSuchKey, obj |-> NoObject]
    ELSE LET o == objs[<<bucket, key>>]
         IN  [err |-> ErrNone,
              obj |-> [Contents |-> <<>>, Hash |-> o.Hash, Metadata |-> o.Metadata,
                       Size |-> o.Size, Range |-> NilObjectRange]]

\* headObject(bucket, object, w, r)
headObject(st, bucket, object) ==
    LET rsp == [NoResp EXCEPT !.op = "headObject", !.bucket = bucket, !.key = object,
                              !.calls = <<"HeadObject">>]
        got == HeadObject(st.buckets, st.objects, bucket, object)
    IN  IF got.err # ErrNone THEN [resp |-> httpError(rsp, got.err), st |-> st]
        ELSE [resp |-> Written(rsp,
                               ("Accept-Ranges" :> "bytes")
                                   @@ ("Connection" :> "close")
                                   @@ ("Content-Length" :> DecStr(got.obj.Size))
                                   @@ ("Server" :> "AmazonS3")
                                   @@ ("Etag" :> ETagHeader(got.obj.Hash))
                                   @@ ("Last-Modified" :> formatHeaderTime(st.now))
                                   @@ [mk \in DOMAIN got.obj.Metadata |-> got.obj.Metadata[mk]]
                                   @@ AmzIdHeaders,
                               <<>>),
              st |-> st]

(***************************************************************************)
(* gofakes3.go: createObjectBrowserUpload.  The request carries the form   *)
(* r.ParseMultipartForm gives: formErr when the body is no form, Value the *)
(* values of each field and File the files of each field.                  *)
(***************************************************************************)
Field(m, name) == IF name \in DOMAIN m THEN m[name] ELSE <<>>

\* createObjectBrowserUpload(bucket, w, r)
createObjectBrowserUpload(st, bucket, r) ==
    LET keyValues  == Field(r.Value, "key")
        key        == IF Len(keyValues) = 1 THEN keyValues[1] ELSE <<>>
        fileValues == Field(r.File, "file")
        fileHeader == fileValues[1]
        rsp  == [NoResp EXCEPT !.op = "createObjectBrowserUpload", !.bucket = bucket,
                               !.key = key]
        meta == metadataHeaders(r.Value, st.now, st.cfg.metadataSizeLimit)
        put  == PutObject(st.buckets, st.objects, bucket, key, meta.meta,
                          Reader(fileHeader.Data), fileHeader.Size)
        call == [rsp EXCEPT !.calls = <<"PutObject">>]
    IN  IF r.formErr THEN [resp |-> httpError(rsp, ErrMalformedPOSTRequest), st |-> st]
        ELSE IF Len(keyValues) # 1
        THEN [resp |-> httpError(rsp, ErrIncorrectNumberOfFilesInPostRequest), st |-> st]
        ELSE IF Len(fileValues) # 1
        THEN [resp |-> httpError(rsp, ErrIncorrectNumberOfFilesInPostRequest), st |-> st]
        ELSE IF meta.err # ErrNone THEN [resp |-> httpError(rsp, meta.err), st |-> st]
        ELSE IF Size(key) > KeySizeLimit
        THEN [resp |-> httpError(rsp, ErrKeyTooLong), st |-> st]
        ELSE IF put.err # ErrNone THEN [resp |-> httpError(call, put.err), st |-> st]
        ELSE [resp |-> Written(call,
                               ("Server" :> "AmazonS3") @@ ("Etag" :> FixedETag)
                                   @@ AmzIdHeaders
                                   @@ ("Access-Control-Allow-Origin" :> "*"),
                               <<>>),
              st |-> [st EXCEPT !.objects = put.objects]]

(***************************************************************************)
(* gofakes3.go: deleteMulti, and the backend call it makes.  The body is   *)
(* the tokens of its XML document: the opening tag, Quiet and Object       *)
(* elements, the closing tag.                                              *)
(***************************************************************************)
DeleteOpen == [tag |-> "<Delete>", Key |-> <<>>, Quiet |-> FALSE]
DeleteClose == [tag |-> "</Delete>", Key |-> <<>>, Quiet |-> FALSE]
QuietTag(q) == [tag |-> "<Quiet>", Key |-> <<>>, Quiet |-> q]
ObjectTag(key) == [tag |-> "<Object>", Key |-> key, Quiet |-> FALSE]

\* the elements of a document that have this tag, in their order
RECURSIVE Elements(_, _)
Elements(body, tag) ==
    IF body = <<>> THEN <<>>
    ELSE (IF Head(body).tag = tag THEN <<Head(body)>> ELSE <<>>) \o Elements(Tail(body), tag)

\* xml.Decoder.Decode into DeleteRequest
xmlDecodeDelete(body) ==
    LET n  == Len(body)
        os == Elements(body, "<Object>")
        qs == Elements(body, "<Quiet>")
    IN  IF /\ n >= 2
           /\ body[1] = DeleteOpen
           /\ body[n] = DeleteClose
           /\ \A i \in 2..(n - 1) : body[i].tag \in {"<Object>", "<Quiet>"}
        THEN [err |-> FALSE,
              in  |-> [Objects |-> [i \in 1..Len(os) |-> [Key |-> os[i].Key]],
                       Quiet   |-> qs # <<>> /\ qs[Len(qs)].Quiet]]
        ELSE [err |-> TRUE, in |-> [Objects |-> <<>>, Quiet |-> FALSE]]

\* Backend.DeleteMulti: each key is deleted as DeleteObject deletes it and
\* listed under Deleted
RECURSIVE DeleteMulti(_, _, _, _)
DeleteMulti(bkts, objs, bucket, keys) ==
    IF bucket \notin bkts
    THEN [err |-> ErrNoSuchBucket, objects |-> objs, Deleted |-> <<>>, Error |-> <<>>]
    ELSE IF keys = <<>>
    THEN [err |-> ErrNone, objects |-> objs, Deleted |-> <<>>, Error |-> <<>>]
    ELSE LET del  == DeleteObject(bkts, objs, bucket, Head(keys))
             rest == DeleteMulti(bkts, del.objects, bucket, Tail(keys))
         IN  [err |-> ErrNone, objects |-> rest.objects,
              Deleted |-> <<[Key |-> Head(keys)]>> \o rest.Deleted,
              Error |-> rest.Error]

\* the multi-delete that stops after the first key
deleteMulti_FirstKey(st, bucket, r) ==
    LET rsp  == [NoResp EXCEPT !.op = "deleteMulti", !.bucket = bucket, !.r = r,
                               !.calls = <<"DeleteMulti">>]
        in   == xmlDecodeDelete(r.Body)
        keys == [i \in 1..Len(in.in.Objects) |-> in.in.Objects[i].Key]
        out  == DeleteMulti(st.buckets, st.objects, bucket,
                            IF keys = <<>> THEN keys ELSE <<Head(keys)>>)
    IN  IF in.err THEN [resp |-> httpError(rsp, ErrMalformedXML), st |-> st]
        ELSE IF out.err # ErrNone THEN [resp |-> httpError(rsp, out.err), st |-> st]
        ELSE [resp |-> Written(rsp, EmptyMap,
                               [Deleted |-> IF in.in.Quiet THEN <<>> ELSE out.Deleted,
                                Error |-> out.Error]),
              st |-> [st EXCEPT !.objects = out.objects]]

\* deleteMulti(bucket, w, r)
deleteMulti(st, bucket, r) ==
    LET rsp  == [NoResp EXCEPT !.op = "deleteMulti", !.bucket = bucket, !.r = r]
        in   == xmlDecodeDelete(r.Body)
        keys == [i \in 1..Len(in.in.Objects) |-> in.in.Objects[i].Key]
        out  == DeleteMulti(st.buckets, st.objects, bucket, keys)
        call == [rsp EXCEPT !.calls = <<"DeleteMulti">>]
    IN  IF in.err THEN [resp |-> httpError(rsp, ErrMalformedXML), st |-> st]
        ELSE IF out.err # ErrNone THEN [resp |-> httpError(call, out.err), st |-> st]
        ELSE [resp |-> Written(call, EmptyMap,
                               [Deleted |-> IF in.in.Quiet THEN <<>> ELSE out.Deleted,
                                Error |-> out.Error]),
              st |-> [st EXCEPT !.objects = out.objects]]

(***************************************************************************)
(* Times.  A time.Time is the day it falls on, counted from 1 January      *)
(* 1970, and the second within that day; a time.Duration is a number of    *)
(* seconds.  The time source of the model, now, counts minutes.            *)
(***************************************************************************)
\* 15 * time.Minute
DefaultSkewLimit == 15 * 60

\* time.Time{}: 1 January of the year 1
ZeroTime == [day |-> -719162, sec |-> 0]

\* the largest time.Duration; the model's is the largest integer it has
MaxDuration == 2147483647

\* g.timeSource.Now()
TimeOf(minutes) == [day |-> minutes \div 1440, sec |-> (minutes % 1440) * 60]

\* the days from 1 January 1970 to the day d of the month m of the year y
DaysFromCivil(y, m, d) ==
    LET yy  == IF m <= 2 THEN y - 1 ELSE y
        era == yy \div 400
        yoe == yy - (era * 400)
        mp  == IF m > 2 THEN m - 3 ELSE m + 9
        doy == (((153 * mp) + 2) \div 5) + (d - 1)
        doe == (yoe * 365) + (yoe \div 4) - (yoe \div 100) + doy
    IN  (era * 146097) + doe - 719468

DaysIn(y, m) ==
    IF m = 2 THEN (IF (y % 4 = 0 /\ y % 100 # 0) \/ y % 400 = 0 THEN 29 ELSE 28)
    ELSE IF m \in {4, 6, 9, 11} THEN 30 ELSE 31

\* time.Parse("20060102T150405Z", s): the time, or the zero time and an error
ParseAmzDate(s) ==
    LET num(a, b) == DigitsValue(SubSeq(s, a, b))
        y  == num(1, 4)
        mo == num(5, 6)
        d  == num(7, 8)
        h  == num(10, 11)
        mi == num(12, 13)
        se == num(14, 15)
        bad == [err |-> TRUE, t |-> ZeroTime]
    IN  IF Len(s) # 16 THEN bad
        ELSE IF \E i \in (1..8) \cup (10..15) : ~IsDigit(s[i]) THEN bad
        ELSE IF s[9] # "T" \/ s[16] # "Z" THEN bad
        ELSE IF mo < 1 \/ mo > 12 \/ d < 1 \/ d > DaysIn(y, mo) THEN bad
        ELSE IF h > 23 \/ mi > 59 \/ se > 59 THEN bad
        ELSE [err |-> FALSE,
              t |-> [day |-> DaysFromCivil(y, mo, d), sec |-> (h * 3600) + (mi * 60) + se]]

\* t.Sub(u): the duration t - u, or the largest or smallest duration when
\* t - u is beyond it
Sub(t, u) ==
    LET days == t.day - u.day
    IN  IF days >= MaxDuration \div 86400 THEN MaxDuration
        ELSE IF 0 - days >= MaxDuration \div 86400 THEN 0 - MaxDuration
        ELSE (days * 86400) + (t.sec - u.sec)

(***************************************************************************)
(* gofakes3.go: Server and its middleware.  A request is its Method, Host, *)
(* Path, Header, Query and Body; each handler of the chain gives the       *)
(* response and the store left.                                            *)
(***************************************************************************)
\* the headers withCORS sets before it hands the request on
CORSHeaders ==
    ("Access-Control-Allow-Origin" :> "*")
        @@ ("Access-Control-Allow-Methods" :> "POST, GET, OPTIONS, PUT, DELETE, HEAD")
        @@ ("Access-Control-Allow-Headers" :> "Authorization, Content-Type, X-Amz-Date, X-Amz-User-Agent")
        @@ ("Access-Control-Expose-Headers" :> "Last-Modified, Content-Length, ETag")

\* routeBase: the dispatch on the method and the shape of the path
routeBase(st, rq) ==
    LET path   == IF rq.Path # <<>> /\ Head(rq.Path) = "/" THEN Tail(rq.Path) ELSE rq.Path
        i      == IndexOf(path, "/")
        bucket == StringOf(IF i < 0 THEN path ELSE SubSeq(path, 1, i))
        object == IF i < 0 THEN <<>> ELSE Runs(SubSeq(path, i + 2, Len(path)))
        rsp    == [NoResp EXCEPT !.op = "routeBase", !.bucket = bucket, !.key = object]
        no     == [resp |-> httpError(rsp, ErrNotImplemented), st |-> st]
    IN  IF bucket = "" THEN no
        ELSE IF object = <<>>
        THEN CASE rq.Method = "PUT" -> createBucket(st, bucket, rq)
               [] rq.Method = "DELETE" -> deleteBucket(st, bucket)
               [] OTHER -> no
        ELSE CASE rq.Method = "PUT" -> createObject(st, bucket, object, rq)
               [] rq.Method = "GET" -> getObject(st, bucket, object, rq)
               [] rq.Method = "HEAD" -> headObject(st, bucket, object)
               [] rq.Method = "DELETE" -> deleteObject(st, bucket, object)
               [] OTHER -> no

\* withCORS.ServeHTTP: the CORS headers, then the router unless the method is
\* OPTIONS
withCORS(st, rq) ==
    LET rsp == [NoResp EXCEPT !.op = "withCORS"]
        out == routeBase(st, rq)
    IN  IF rq.Method = "OPTIONS"
        THEN [resp |-> Written(rsp, CORSHeaders, <<>>), st |-> st]
        ELSE [out EXCEPT !.resp.hdrs = out.resp.hdrs @@ CORSHeaders]

\* the characters of a header value
RECURSIVE Expand(_)
Expand(v) ==
    IF v = <<>> THEN <<>>
    ELSE [i \in 1..Head(v)[2] |-> Head(v)[1]] \o Expand(Tail(v))

\* the guard that rejects a skew of the limit itself
timeSkewMiddleware_Strict(st, rq, next) ==
    LET timeHdr == Expand(Get(rq.Header, "x-amz-date"))
        skew    == Sub(TimeOf(st.now), ParseAmzDate(timeHdr).t)
        rsp     == [NoResp EXCEPT !.op = "timeSkewMiddleware"]
    IN  IF timeHdr # <<>> /\ (skew <= 0 - st.cfg.timeSkew \/ skew >= st.cfg.timeSkew)
        THEN [resp |-> httpError(rsp, ErrRequestTimeTooSkewed), st |-> st]
        ELSE next

\* timeSkewMiddleware(handler): next is what handler.ServeHTTP(w, rq) gives
timeSkewMiddleware(st, rq, next) ==
    LET timeHdr == Expand(Get(rq.Header, "x-amz-date"))
        rqTime  == ParseAmzDate(timeHdr).t
        at      == TimeOf(st.now)
        skew    == Sub(at, rqTime)
        rsp     == [NoResp EXCEPT !.op = "timeSkewMiddleware"]
    IN  IF timeHdr # <<>> /\ (skew < 0 - st.cfg.timeSkew \/ skew > st.cfg.timeSkew)
        THEN [resp |-> httpError(rsp, ErrRequestTimeTooSkewed), st |-> st]
        ELSE next

\* hostBucketMiddleware(handler): the request handler.ServeHTTP is given
hostBucketMiddleware(rq) ==
    LET parts  == Split(rq.Host, ".")
        bucket == parts[1]
        p      == rq.Path
    IN  [rq EXCEPT !.Path = <<"/">> \o bucket \o (IF p # <<"/">> THEN p ELSE <<>>)]

\* Server(): withCORS around the router, the time-skew guard around it when
\* the limit is not 0, the host rewrite around that when it is enabled
Server(st, rq) ==
    LET inner == IF st.cfg.hostBucket THEN hostBucketMiddleware(rq) ELSE rq
        cors  == withCORS(st, inner)
    IN  IF st.cfg.timeSkew # 0 THEN timeSkewMiddleware(st, inner, cors) ELSE cors

(***************************************************************************)
(* The Range headers given to the model.                                   *)
(***************************************************************************)
Nums == 0..MaxNum

FirstLast(s, e) == BytesUnit \o DecStr(s) \o <<"-">> \o DecStr(e)
FirstOnly(s)    == BytesUnit \o DecStr(s) \o <<"-">>
Suffix(n)       == BytesUnit \o <<"-">> \o DecStr(n)

\* headers of the three forms, in bounds and out of order
FormHeaders ==
    {FirstLast(s, e) : s \in Nums, e \in Nums}
        \cup {FirstOnly(s) : s \in Nums}
        \cup {Suffix(n) : n \in Nums}

\* the headers of TestGetObjectRangeInvalid, and more of each kind
WrongUnit     == {<<"b", "o", "a", "t", "s", "=", "0", "-", "0">>, <<"0", "-", "1">>,
                  <<"B", "y", "t", "e", "s", "=", "0", "-", "1">>}
EmptyRange    == {BytesUnit, BytesUnit \o <<" ">>}
NoDash        == {BytesUnit \o <<"0">>, BytesUnit \o <<"1", "2">>}
MultiRange    == {BytesUnit \o <<"0", "-", "1", ",", "1", "-", "2">>,
                  BytesUnit \o <<"0", "-", "1", ",">>,
                  BytesUnit \o <<",">>}
NonNumeric    == {BytesUnit \o <<"-", "q">>, BytesUnit \o <<"q", "-", "1">>,
                  BytesUnit \o <<"1", "-", "q">>, BytesUnit \o <<"-">>,
                  BytesUnit \o <<"1", "-", "0", "x", "2">>}
Overflowing   == {BytesUnit \o Int64Cutoff \o <<"-">>,
                  BytesUnit \o <<"0", "-">> \o Int64Cutoff,
                  BytesUnit \o <<"-">> \o Int64Cutoff,
                  BytesUnit \o <<"1">> \o Int64Cutoff \o <<"-">>}
NegativeStart == {BytesUnit \o <<"-", "1", "-", "2">>, BytesUnit \o <<"-", "1", "-">>}
StartAfterEnd == {FirstLast(p[1], p[2]) : p \in {q \in Nums \X Nums : q[1] > q[2]}}

\* headers the claims' forms do not name: signs and padding
OddHeaders    == {BytesUnit \o <<"-", "-", "2">>,
                  BytesUnit \o <<" ", "1", " ", "-", " ", "2", " ">>,
                  BytesUnit \o <<"+", "1", "-", "+", "2">>,
                  BytesUnit \o <<"0", "1", "-", "0", "0", "2">>}

MalformedHeaders ==
    WrongUnit \cup EmptyRange \cup NoDash \cup MultiRange \cup NonNumeric
        \cup Overflowing \cup NegativeStart \cup StartAfterEnd

RangeHeaders == {<<>>} \cup FormHeaders \cup MalformedHeaders \cup OddHeaders

Sizes == 0..MaxSize

\* the range harness before Resolve
NotResolved == [done |-> FALSE, err |-> ErrNone, req |-> NilRequest,
                rng |-> NilObjectRange, hdrs |-> EmptyMap]

(***************************************************************************)
(* The requests given to the handlers.                                     *)
(***************************************************************************)
BucketNames == {"bkt", "B"}

ShortKey == <<<<"k", 1>>>>
MaxKey == <<<<"k", KeySizeLimit>>>>
LongKey == <<<<"k", KeySizeLimit + 1>>>>
Keys == {ShortKey, MaxKey, LongKey}

Body1 == <<<<1, 1>>>>
Body2 == <<<<1, 2>>, <<2, 1>>>>
Bodies == {<<>>, Body1, Body2}

\* the Range headers of the GET requests: no header and each form, within and
\* beyond the bodies, for the keys that can be stored; every malformed header
GetRequests ==
    ({ShortKey, MaxKey}
        \X {<<>>, FirstLast(0, 0), FirstLast(1, MaxNum), FirstOnly(1), FirstOnly(MaxNum),
            Suffix(1), Suffix(MaxNum)})
        \cup ({ShortKey} \X (MalformedHeaders \cup OddHeaders))
        \cup {<<LongKey, <<>> >>}

\* the Content-Length header the server gives a request with this body
ContentLength(body) == "Content-Length" :> <<DecStr(Size(body))>>

\* the headers of the PUT requests: only Content-Length; without it; with an
\* X-Amz- header, short, over the metadata limit, and of the limit with its
\* name; with a Content-MD5 that is
\* right, that is of other bytes, and that is no base64
PutHeaders(body) ==
    {ContentLength(body),
     EmptyMap,
     ContentLength(body) @@ ("X-Amz-Meta-A" :> <<<<<<"v", 1>>>>>>),
     ContentLength(body) @@ ("X-Amz-Meta-A" :> <<<<<<"v", DefaultMetadataSizeLimit>>>>>>),
     ContentLength(body)
         @@ ("X-Amz-Meta-A" :> <<<<<<"v", DefaultMetadataSizeLimit - Len("X-Amz-Meta-A")>>>>>>),
     ContentLength(body) @@ ("Content-Md5" :> <<B64Encode(MD5(body))>>),
     ContentLength(body) @@ ("Content-Md5" :> <<B64Encode(MD5(<<<<9, 9>>>>))>>),
     ContentLength(body)
         @@ ("Content-Md5" :> <<<<"!", "*", "@", "&", "(", "*", "$", "&">>>>)}

PutRequests ==
    {[key |-> k, body |-> b, hdr |-> ContentLength(b)] : k \in Keys, b \in Bodies}
        \cup {[key |-> ShortKey, body |-> Body1, hdr |-> h] : h \in PutHeaders(Body1)}
        \cup {[key |-> LongKey, body |-> Body1,
                hdr |-> ContentLength(Body1)
                            @@ ("Content-Md5" :> <<<<"!", "*", "@", "&", "(", "*", "$", "&">>>>)]}

\* the forms of the browser uploads: a key and a file; a key over the limit;
\* a body that is no form; no key; two files; a field over the metadata limit
File(body) == [Size |-> Size(body), Data |-> body]

Form(value, files) == [formErr |-> FALSE, Value |-> value, File |-> "file" :> files]

BrowserForms ==
    {Form("key" :> <<ShortKey>>, <<File(Body2)>>),
     Form("key" :> <<LongKey>>, <<File(Body2)>>),
     [Form("key" :> <<ShortKey>>, <<File(Body2)>>) EXCEPT !.formErr = TRUE],
     Form(EmptyMap, <<File(Body2)>>),
     Form("key" :> <<ShortKey>>, <<File(Body1), File(Body2)>>),
     Form(("key" :> <<ShortKey>>)
              @@ ("X-Amz-Meta-A" :> <<<<<<"v", DefaultMetadataSizeLimit>>>>>>),
          <<File(Body2)>>)}

\* the multi-delete requests: the keys K in the order the body lists them and
\* the Quiet element, if any; a body cut short
DeleteBody(keys, quiet) ==
    <<DeleteOpen>>
        \o (IF quiet = "none" THEN <<>> ELSE <<QuietTag(quiet = "true")>>)
        \o [i \in 1..Len(keys) |-> ObjectTag(keys[i])]
        \o <<DeleteClose>>

DeleteRequests ==
    {[Header |-> EmptyMap, Body |-> DeleteBody(ks, q), K |-> {ks[i] : i \in 1..Len(ks)},
      Quiet |-> (q = "true"), cut |-> FALSE]
        : ks \in {<<>>, <<ShortKey>>, <<MaxKey, ShortKey>>}, q \in {"none", "true", "false"}}
        \cup {[Header |-> EmptyMap, Body |-> <<DeleteOpen, ObjectTag(ShortKey)>>,
                K |-> {ShortKey}, Quiet |-> FALSE, cut |-> TRUE]}

(***************************************************************************)
(* Multipart uploads: the requests, and the steps of their handlers.  The  *)
(* front-end serves each request on its own goroutine, so another request  *)
(* can run between uploader.Get and upload.AddPart of a put-part, and      *)
(* between uploader.Complete and upload.Reassemble of a complete.          *)
(***************************************************************************)
UploadIDs == 1..MaxUploads

\* the key each upload is for: the first is for a short key, the others for
\* a key one byte over KeySizeLimit
UploadKey(id) == IF id = 1 THEN ShortKey ELSE LongKey

NoMpuResp == [op |-> "none", id |-> 0, r |-> NoRequest, err |-> ErrNone, etag |-> "",
              Parts |-> <<>>, Uploads |-> <<>>, body |-> <<>>,
              late |-> FALSE, obtained |-> FALSE, overlap |-> FALSE,
              atRemoval |-> EmptyMap, retry |-> FALSE]

\* ghost: removed and aborted are the ids a complete or abort, and an abort, took
\* out of the registry; obtained and puts count the requests that were given the
\* upload and the PutObject calls made for it; stored is the body of the last
\* put-part answered with success at each part number; discarded are the ids a
\* put-part added a part to after an abort removed them; meta is the metadata of
\* the initiate request; requests counts the requests made; consumed is the
\* error of the complete request that was given the upload and failed
NoGhost == [removed |-> {}, aborted |-> {}, discarded |-> {}, requests |-> 0,
            consumed |-> [id \in UploadIDs |-> ErrNone],
            obtained |-> [id \in UploadIDs |-> 0],
            puts |-> [id \in UploadIDs |-> 0],
            stored |-> [id \in UploadIDs |-> EmptyMap],
            meta |-> [id \in UploadIDs |-> EmptyMap]]

IdleMPU ==
    /\ registry = {}
    /\ uploads = EmptyMap
    /\ inflight = {}
    /\ mpuResp = NoMpuResp
    /\ ghost = NoGhost

(***************************************************************************)
(* The state after New(backend) on an empty backend, and the requests.     *)
(***************************************************************************)
\* New(backend): the options of a server made without options
New == [integrityCheck |-> TRUE, metadataSizeLimit |-> DefaultMetadataSizeLimit,
        timeSkew |-> DefaultSkewLimit, hostBucket |-> FALSE]

Store == [cfg |-> cfg, now |-> now, buckets |-> buckets, objects |-> objects]

InitStore ==
    /\ cfg = New
    /\ now = 0
    /\ buckets = {}
    /\ objects = EmptyMap
    /\ resp = NoResp
    /\ lastPut = EmptyMap

IdleRange ==
    /\ rngIn = [hdr |-> <<>>, size |-> 0]
    /\ rngOut = NotResolved

Init == InitStore /\ IdleRange /\ IdleMPU

\* the handler's response is sent and the store it left is the backend's
Serve(out) ==
    /\ resp' = out.resp
    /\ buckets' = out.st.buckets
    /\ objects' = out.st.objects
    /\ UNCHANGED <<cfg, now, rangeVars, mpuVars>>

Forget(key) == [p \in DOMAIN lastPut \ {key} |-> lastPut[p]]

\* PUT /{bucket}
CreateBucketRq ==
    \E b \in BucketNames :
        /\ Serve(createBucket(Store, b, [Header |-> EmptyMap]))
        /\ UNCHANGED lastPut

\* DELETE /{bucket}
DeleteBucketRq ==
    \E b \in BucketNames :
        /\ Serve(deleteBucket(Store, b))
        /\ UNCHANGED lastPut

\* PUT /{bucket}/{key}
CreateObjectRq ==
    \E rq \in PutRequests :
        LET out == createObject(Store, "bkt", rq.key, [Header |-> rq.hdr, Body |-> rq.body])
        IN  /\ Serve(out)
            /\ lastPut' = IF out.resp.err = ErrNone
                          THEN (<<"bkt", rq.key>> :> rq.body) @@ lastPut
                          ELSE lastPut

\* GET /{bucket}/{key}
GetObjectRq ==
    \E rq \in GetRequests :
        /\ Serve(getObject(Store, "bkt", rq[1],
                           [Header |-> IF rq[2] = <<>> THEN EmptyMap
                                       ELSE "Range" :> <<rq[2]>>]))
        /\ UNCHANGED lastPut

\* DELETE /{bucket}/{key}
DeleteObjectRq ==
    \E k \in Keys :
        LET out == deleteObject(Store, "bkt", k)
        IN  /\ Serve(out)
            /\ lastPut' = IF out.resp.err = ErrNone THEN Forget(<<"bkt", k>>) ELSE lastPut

\* HEAD /{bucket}/{key}
HeadObjectRq ==
    \E k \in Keys :
        /\ Serve(headObject(Store, "bkt", k))
        /\ UNCHANGED lastPut

\* POST /{bucket}, a form
BrowserUploadRq ==
    \E f \in BrowserForms :
        LET out == createObjectBrowserUpload(Store, "bkt", f)
        IN  /\ Serve(out)
            /\ lastPut' = IF out.resp.err = ErrNone
                          THEN Forget(<<"bkt", out.resp.key>>) ELSE lastPut

\* POST /{bucket}?delete
DeleteMultiRq ==
    \E rq \in DeleteRequests :
        LET out == deleteMulti(Store, "bkt", rq)
        IN  /\ Serve(out)
            /\ lastPut' = IF out.resp.err = ErrNone
                          THEN [p \in DOMAIN lastPut \ {<<"bkt", k>> : k \in rq.K}
                                   |-> lastPut[p]]
                          ELSE lastPut

Next ==
    \/ CreateBucketRq
    \/ DeleteBucketRq
    \/ CreateObjectRq
    \/ GetObjectRq
    \/ DeleteObjectRq
    \/ HeadObjectRq
    \/ BrowserUploadRq
    \/ DeleteMultiRq

Spec == Init /\ [][Next]_vars

(***************************************************************************)
(* The range harness: a header and a size are drawn, parseRangeHeader and  *)
(* Range are applied, writeHeader formats the result.                      *)
(***************************************************************************)
InitRange ==
    /\ rngIn \in [hdr : RangeHeaders, size : Sizes]
    /\ rngOut = NotResolved
    /\ InitStore
    /\ IdleMPU

Resolve ==
    /\ ~rngOut.done
    /\ LET p == parseRangeHeader(rngIn.hdr)
           r == IF p.err = ErrNone THEN Range(p.req, rngIn.size) ELSE NilObjectRange
       IN  rngOut' = [done |-> TRUE, err |-> p.err, req |-> p.req, rng |-> r,
                      hdrs |-> writeHeader(r, rngIn.size)]
    /\ UNCHANGED rngIn
    /\ UNCHANGED storeVars
    /\ UNCHANGED mpuVars

NextRange == Resolve

SpecRange == InitRange /\ [][NextRange]_vars

(***************************************************************************)
(* Multipart uploads: the requests and the steps.                          *)
(***************************************************************************)
Uploader == [registry |-> registry, uploads |-> uploads]

\* the part bodies a client sends to upload id: one of six MiB, one of one byte,
\* of bytes that tell the upload
BigPartSize == 6 * 1024 * 1024
BigPart(id) == <<<<(10 * id) + 1, BigPartSize>>>>
SmallPart(id) == <<<<(10 * id) + 2, 1>>>>

\* POST /{bucket}/{key}?uploads: with an X-Amz- header, and with one over the
\* metadata limit
InitiateHeaders ==
    {"X-Amz-Meta-A" :> <<<<<<"v", 1>>>>>>,
     "X-Amz-Meta-A" :> <<<<<<"v", DefaultMetadataSizeLimit>>>>>>}

PartRequest(pn, body, hdr) ==
    [Header |-> hdr, Query |-> ("partNumber" :> pn), Body |-> body]

\* PUT /{bucket}/{key}?partNumber=N&uploadId=U: part 1 with either body and
\* part 2 with the small one; part number 0, 10001 and x; no Content-Length, one
\* of 0, one of -1 and one of a byte more than the body; a Content-MD5 of other
\* bytes
PutPartRequests(id) ==
    {PartRequest(<<"1">>, b, ContentLength(b)) : b \in {BigPart(id), SmallPart(id)}}
      \cup {PartRequest(pn, SmallPart(id), ContentLength(SmallPart(id))) :
               pn \in {<<"2">>, <<"0">>, <<"1", "0", "0", "0", "1">>, <<"x">>}}
      \cup {PartRequest(<<"1">>, SmallPart(id), "Content-Length" :> <<cl>>) :
               cl \in {<<"0">>, <<"-", "1">>, <<"2">>}}
      \cup {PartRequest(<<"1">>, SmallPart(id), EmptyMap),
            PartRequest(<<"1">>, SmallPart(id),
                        ContentLength(SmallPart(id))
                            @@ ("Content-Md5" :> <<B64Encode(MD5(<<<<9, 9>>>>))>>))}

PartOf(n, body) == PartTag(n, ETagHeader(MD5(body)))

\* POST /{bucket}/{key}?uploadId=U: no part; part 1; parts 1 and 2; a small
\* part before the last; parts out of order; a document cut short
CompleteBodies(id) ==
    {<<OpenTag, CloseTag>>,
     <<OpenTag, PartOf(1, BigPart(id)), CloseTag>>,
     <<OpenTag, PartOf(1, BigPart(id)), PartOf(2, SmallPart(id)), CloseTag>>,
     <<OpenTag, PartOf(1, SmallPart(id)), PartOf(2, SmallPart(id)), CloseTag>>,
     <<OpenTag, PartOf(2, SmallPart(id)), PartOf(1, BigPart(id)), CloseTag>>,
     <<OpenTag, PartOf(1, BigPart(id))>>}

\* GET /{bucket}/{key}?uploadId=U
ListPartsQueries ==
    {EmptyMap,
     "part-number-marker" :> <<"1">>,
     "part-number-marker" :> <<"x">>}

\* GET /{bucket}?uploads
ListUploadsQueries ==
    {EmptyMap, "max-uploads" :> <<"x">>}

InitMPU ==
    /\ cfg = New
    /\ now = 0
    /\ buckets = {"bkt"}
    /\ objects = EmptyMap
    /\ resp = NoResp
    /\ lastPut = EmptyMap
    /\ IdleRange
    /\ IdleMPU

\* the ids the step took out of the registry
Removed(after) == registry \ after

\* one more request has been made
Count(g) == [g EXCEPT !.requests = @ + 1]

Answer(op, id, r, err) ==
    [NoMpuResp EXCEPT !.op = op, !.id = id, !.r = r, !.err = err,
                      !.late = id \in ghost.removed,
                      !.retry = id \in UploadIDs /\ ghost.consumed[id] # ErrNone]

\* POST /{bucket}/{key}?uploads
InitiateRq ==
    /\ ghost.requests < MaxRequests
    /\ Cardinality(DOMAIN uploads) < MaxUploads
    /\ \E hdr \in InitiateHeaders :
          LET r   == [NoRequest EXCEPT !.Header = hdr]
              out == initiateMultipartUpload(Store, Uploader, "bkt",
                                             UploadKey(Cardinality(DOMAIN uploads) + 1), r)
          IN  /\ registry' = out.u.registry
              /\ uploads' = out.u.uploads
              /\ mpuResp' = Answer("initiate", out.id, r, out.err)
              /\ ghost' = IF out.err # ErrNone THEN Count(ghost)
                          ELSE [Count(ghost) EXCEPT !.meta[out.id] =
                                   ("Last-Modified" :> formatHeaderTime(now))
                                       @@ [hk \in DOMAIN hdr |-> hdr[hk][1]]]
    /\ UNCHANGED <<inflight, rangeVars, storeVars>>

\* PUT ...?partNumber=N&uploadId=U, to uploader.Get
PutPartBegin ==
    /\ ghost.requests < MaxRequests
    /\ Cardinality(inflight) < MaxInFlight
    /\ \E id \in UploadIDs : \E r \in PutPartRequests(id) :
          LET out == putPartLookup(Uploader, "bkt", UploadKey(id), id, r)
          IN  IF out.err # ErrNone
              THEN /\ mpuResp' = Answer("putPart", id, r, out.err)
                   /\ UNCHANGED inflight
              ELSE /\ inflight' = inflight \cup
                          {[op |-> "putPart", id |-> id, upload |-> out.upload,
                            partNumber |-> out.partNumber, size |-> out.size, r |-> r,
                            in |-> [Parts |-> <<>>], late |-> id \in ghost.removed,
                            overlap |-> FALSE, atRemoval |-> EmptyMap]}
                   /\ UNCHANGED mpuResp
    /\ ghost' = Count(ghost)
    /\ UNCHANGED <<registry, uploads, rangeVars, storeVars>>

\* PUT ...?partNumber=N&uploadId=U, from the reading of the body
PutPartEnd ==
    \E rq \in inflight :
        /\ rq.op = "putPart"
        /\ LET out == putPartAdd(Store, Uploader, rq.upload, rq.partNumber, rq.size, rq.r)
           IN  /\ uploads' = out.u.uploads
               /\ mpuResp' = [Answer("putPart", rq.id, rq.r, out.err)
                                 EXCEPT !.etag = out.etag, !.late = rq.late,
                                        !.retry = FALSE]
               /\ ghost' = IF out.err # ErrNone THEN ghost
                           ELSE [ghost EXCEPT
                                   !.stored[rq.id] = (rq.partNumber :> rq.r.Body) @@ @,
                                   !.discarded = IF rq.id \in ghost.aborted
                                                 THEN @ \cup {rq.id} ELSE @]
        /\ inflight' = inflight \ {rq}
        /\ UNCHANGED <<registry, rangeVars, storeVars>>

\* POST ...?uploadId=U, to uploader.Complete
CompleteBegin ==
    /\ ghost.requests < MaxRequests
    /\ Cardinality(inflight) < MaxInFlight
    /\ \E id \in UploadIDs : \E body \in CompleteBodies(id) :
          LET r   == [NoRequest EXCEPT !.Body = body]
              out == completeLookup(Uploader, "bkt", UploadKey(id), id, r)
          IN  /\ registry' = out.u.registry
              /\ IF out.err # ErrNone
                 THEN /\ mpuResp' = Answer("complete", id, r, out.err)
                      /\ ghost' = Count(ghost)
                      /\ UNCHANGED inflight
                 ELSE /\ inflight' = inflight \cup
                             {[op |-> "complete", id |-> id, upload |-> out.upload,
                               partNumber |-> 0, size |-> 0, r |-> r, in |-> out.in,
                               late |-> id \in ghost.removed,
                               overlap |-> \E p \in inflight :
                                              p.op = "putPart" /\ p.id = id,
                               atRemoval |-> ghost.stored[id]]}
                      /\ ghost' = [Count(ghost) EXCEPT
                                     !.removed = @ \cup Removed(out.u.registry),
                                     !.obtained[id] = @ + 1]
                      /\ UNCHANGED mpuResp
    /\ UNCHANGED <<uploads, rangeVars, storeVars>>

\* POST ...?uploadId=U, from upload.Reassemble
CompleteEnd ==
    \E rq \in inflight :
        /\ rq.op = "complete"
        /\ LET out == completeAssemble(Store, Uploader, "bkt", UploadKey(rq.id), rq.upload,
                                       rq.in)
           IN  /\ objects' = out.st.objects
               /\ mpuResp' = [Answer("complete", rq.id, rq.r, out.err)
                                 EXCEPT !.etag = out.etag, !.body = out.body,
                                        !.late = rq.late, !.obtained = TRUE,
                                        !.overlap = rq.overlap,
                                        !.atRemoval = rq.atRemoval,
                                        !.retry = FALSE]
               /\ ghost' = [ghost EXCEPT !.puts[rq.id] = @ + out.puts,
                                         !.consumed[rq.id] = out.err]
        /\ inflight' = inflight \ {rq}
        /\ UNCHANGED <<registry, uploads, rangeVars, cfg, now, buckets, resp, lastPut>>

\* DELETE ...?uploadId=U
AbortRq ==
    \E id \in UploadIDs :
        LET out == abortMultipartUpload(Uploader, "bkt", UploadKey(id), id)
        IN  /\ ghost.requests < MaxRequests
            /\ registry' = out.u.registry
            /\ mpuResp' = [Answer("abort", id, NoRequest, out.err)
                              EXCEPT !.obtained = (out.err = ErrNone)]
            /\ ghost' = IF out.err # ErrNone THEN Count(ghost)
                        ELSE [Count(ghost) EXCEPT
                                !.removed = @ \cup Removed(out.u.registry),
                                !.aborted = @ \cup Removed(out.u.registry),
                                !.obtained[id] = @ + 1]
            /\ UNCHANGED <<uploads, inflight, rangeVars, storeVars>>

\* GET ...?uploadId=U
ListPartsRq ==
    \E id \in UploadIDs : \E q \in ListPartsQueries :
        LET r   == [NoRequest EXCEPT !.Query = q]
            out == listMultipartUploadParts(Uploader, "bkt", UploadKey(id), id, r)
        IN  /\ ghost.requests < MaxRequests
            /\ mpuResp' = [Answer("listParts", id, r, out.err) EXCEPT !.Parts = out.Parts]
            /\ ghost' = Count(ghost)
            /\ UNCHANGED <<registry, uploads, inflight, rangeVars, storeVars>>

\* GET /{bucket}?uploads
ListUploadsRq ==
    \E q \in ListUploadsQueries :
        LET r   == [NoRequest EXCEPT !.Query = q]
            out == listMultipartUploads(Uploader, "bkt", r)
        IN  /\ ghost.requests < MaxRequests
            /\ mpuResp' = [Answer("listUploads", 0, r, out.err)
                              EXCEPT !.Uploads = out.Uploads]
            /\ ghost' = Count(ghost)
            /\ UNCHANGED <<registry, uploads, inflight, rangeVars, storeVars>>

\* DELETE /{bucket}, among the multipart requests
DropBucketRq ==
    /\ ghost.requests < MaxRequests
    /\ \E out \in {deleteBucket(Store, "bkt")} :
          /\ resp' = out.resp
          /\ buckets' = out.st.buckets
    /\ ghost' = Count(ghost)
    /\ UNCHANGED <<registry, uploads, inflight, mpuResp, rangeVars, cfg, now, objects,
                   lastPut>>

NextMPU ==
    \/ DropBucketRq
    \/ InitiateRq
    \/ PutPartBegin
    \/ PutPartEnd
    \/ CompleteBegin
    \/ CompleteEnd
    \/ AbortRq
    \/ ListPartsRq
    \/ ListUploadsRq

SpecMPU == InitMPU /\ [][NextMPU]_vars

(***************************************************************************)
(* The server: requests served by the handler Server() returns, and the    *)
(* time source advanced between them.                                      *)
(***************************************************************************)
SkewLimits == {0, DefaultSkewLimit}

\* a time of 1 January 1970 in the format 20060102T150405Z
FormatAmzDate(sec) ==
    <<"1", "9", "7", "0", "0", "1", "0", "1", "T">>
        \o Pad2(sec \div 3600) \o Pad2((sec % 3600) \div 60) \o Pad2(sec % 60) \o <<"Z">>

\* the times a client puts in x-amz-date when the server's clock reads at: at
\* the skew limit and one second beyond it, on both sides
ClientTimes(at) ==
    {(at * 60) + (sgn * (l + over)) : sgn \in {-1, 1}, l \in SkewLimits \ {0}, over \in {0, 1}}

\* x-amz-date values time.Parse rejects: another format, a day that is none
BadDates ==
    {<<"1", "9", "7", "0", "-", "0", "1", "-", "0", "1", "T", "0", "0", ":", "1", "6",
       ":", "0", "0", "Z">>,
     <<"1", "9", "7", "0", "0", "2", "3", "0", "T", "0", "0", "1", "6", "0", "0", "Z">>}

\* the x-amz-date of the requests: none, a parseable one or a bad one; sent is
\* the time the client meant
Dates(at) ==
    {[kind |-> "absent", hdr |-> EmptyMap, sent |-> 0]}
        \cup {[kind |-> "parseable", hdr |-> "X-Amz-Date" :> <<Runs(FormatAmzDate(t))>>,
               sent |-> t] : t \in ClientTimes(at)}
        \cup {[kind |-> "unparseable", hdr |-> "X-Amz-Date" :> <<Runs(d)>>, sent |-> 0]
                 : d \in BadDates}

Chars(str) == [i \in 1..Len(str) |-> SubSeq(str, i, i)]

\* where the requests go: a bucket and an object of it, in the path and in the
\* host name
Targets ==
    {[Host |-> Chars("localhost"), Path |-> Chars("/bkt/k")],
     [Host |-> Chars("bkt.localhost"), Path |-> Chars("/k")]}

Methods == {"PUT", "GET", "OPTIONS"}

ServerRequests(at) ==
    {[Method |-> m, Host |-> t.Host, Path |-> t.Path,
      Header |-> d.hdr @@ (IF m = "PUT" THEN ContentLength(Body1) ELSE EmptyMap),
      Query |-> EmptyMap, Body |-> IF m = "PUT" THEN Body1 ELSE <<>>,
      date |-> d.kind, sent |-> d.sent]
        : m \in Methods, t \in Targets, d \in Dates(at)}

\* ghost: the request a response answers, the clock it was served at, and
\* whether the store was left as it was
NoServed == [Method |-> "", date |-> "absent", sent |-> 0, at |-> 0, unchanged |-> TRUE]

InitServer ==
    /\ cfg \in {[New EXCEPT !.timeSkew = l, !.hostBucket = h]
                   : l \in SkewLimits, h \in BOOLEAN}
    /\ now = 16
    /\ buckets = {"bkt"}
    /\ objects = EmptyMap
    /\ resp = NoResp @@ NoServed
    /\ lastPut = EmptyMap
    /\ IdleRange
    /\ IdleMPU

\* a request is served
ServeHTTP ==
    \E rq \in ServerRequests(now) : \E out \in {Server(Store, rq)} :
        /\ resp' = out.resp @@ [Method |-> rq.Method, date |-> rq.date,
                                sent |-> rq.sent, at |-> now,
                                unchanged |-> (out.st.buckets = buckets
                                                  /\ out.st.objects = objects)]
        /\ buckets' = out.st.buckets
        /\ objects' = out.st.objects
        /\ UNCHANGED <<cfg, now, lastPut, rangeVars, mpuVars>>

\* the time source moves on
Advance ==
    /\ now < MaxClock
    /\ now' = now + 1
    /\ UNCHANGED <<cfg, buckets, objects, resp, lastPut, rangeVars, mpuVars>>

NextServer ==
    \/ ServeHTTP
    \/ Advance

SpecServer == InitServer /\ [][NextServer]_vars

(***************************************************************************)
(* Claims about objects (checked under Spec).                              *)
(***************************************************************************)
HexVal(c) == (CHOOSE i \in 1..16 : HexDigits[i] = c) - 1

\* s is the digest in lowercase hexadecimal, two digits a byte, within quotes
IsQuotedHexOf(s, digest) ==
    /\ Len(s) = (2 * Len(digest)) + 2
    /\ SubSeq(s, 1, 1) = "\""
    /\ SubSeq(s, Len(s), Len(s)) = "\""
    /\ \A i \in 1..Len(digest) :
          LET hi == SubSeq(s, 2 * i, 2 * i)
              lo == SubSeq(s, (2 * i) + 1, (2 * i) + 1)
          IN  /\ \E j \in 1..16 : HexDigits[j] = hi
              /\ \E j \in 1..16 : HexDigits[j] = lo
              /\ (16 * HexVal(hi)) + HexVal(lo) = digest[i]

\* C1: after a PUT object request succeeded for (bucket, key) with some bytes,
\* and until the key is written or deleted again, a GET of (bucket, key) with no
\* Range header returns exactly those bytes and an ETag that is the quoted
\* lowercase hex MD5 of those bytes.
C1_GetReturnsPutBytes ==
    (/\ resp.op = "getObject"
     /\ resp.rangeHdr = <<>>
     /\ <<resp.bucket, resp.key>> \in DOMAIN lastPut) =>
        /\ resp.err = ErrNone
        /\ resp.body = lastPut[<<resp.bucket, resp.key>>]
        /\ "Etag" \in DOMAIN resp.hdrs
        /\ IsQuotedHexOf(resp.hdrs["Etag"], MD5(lastPut[<<resp.bucket, resp.key>>]))

\* a GET has returned the bytes put at the longest key allowed
C1_Witness ==
    /\ resp.op = "getObject"
    /\ resp.rangeHdr = <<>>
    /\ resp.key = MaxKey
    /\ <<resp.bucket, resp.key>> \in DOMAIN lastPut
    /\ lastPut[<<resp.bucket, resp.key>>] = Body2
    /\ resp.body = Body2

\* C9: a GET object request whose Range header is malformed (wrong unit, empty
\* range, no dash, several ranges, a bound that is no number or overflows int64,
\* a negative start, start > end) fails with InvalidRange, and the backend's
\* GetObject is not called for it.
C9_MalformedRangeRejected ==
    (resp.op = "getObject" /\ resp.rangeHdr \in MalformedHeaders) =>
        /\ resp.err = ErrInvalidRange
        /\ resp.calls = <<>>

\* a GET naming two ranges of a stored object has been answered InvalidRange
C9_Witness ==
    /\ resp.op = "getObject"
    /\ resp.rangeHdr \in MultiRange
    /\ <<resp.bucket, resp.key>> \in DOMAIN objects
    /\ resp.err = ErrInvalidRange

\* C10: a successful GET object response has status 206 when a range is served
\* (Content-Range is written) and status 200 when none is.
C10_RangeServedGives206 ==
    (resp.op = "getObject" /\ resp.err = ErrNone) =>
        resp.status = (IF "Content-Range" \in DOMAIN resp.hdrs THEN 206 ELSE 200)

(***************************************************************************)
(* Claims about multipart uploads (checked under SpecMPU).                 *)
(***************************************************************************)
\* the Part elements of the document of a complete request
Listed(rsp) == SubSeq(rsp.r.Body, 2, Len(rsp.r.Body) - 1)

\* the bytes last stored at the listed part numbers, in the order of the list
RECURSIVE ConcatStored(_, _)
ConcatStored(stored, list) ==
    IF list = <<>> THEN <<>>
    ELSE Concat(stored[Head(list).PartNumber], ConcatStored(stored, Tail(list)))

\* C2: when a complete request that listed part numbers p1 < ... < pn answers
\* with success, and every put-part of the upload was over before it began, the
\* backend holds at (bucket, key) the concatenation, in the listed order, of the
\* bytes last stored at each listed part number, under the metadata taken at
\* initiate, and one PutObject was made for the upload.
C2_CompleteStoresListedParts ==
    (mpuResp.op = "complete" /\ mpuResp.err = ErrNone /\ ~mpuResp.overlap) =>
        LET list == Listed(mpuResp)
            key  == <<"bkt", UploadKey(mpuResp.id)>>
        IN  /\ \A i \in 1..(Len(list) - 1) : list[i].PartNumber < list[i + 1].PartNumber
            /\ \A i \in 1..Len(list) : list[i].PartNumber \in DOMAIN mpuResp.atRemoval
            /\ key \in DOMAIN objects
            /\ objects[key].Contents = ConcatStored(mpuResp.atRemoval, list)
            /\ objects[key].Size = Size(ConcatStored(mpuResp.atRemoval, list))
            /\ objects[key].Metadata = ghost.meta[mpuResp.id]
            /\ ghost.puts[mpuResp.id] = 1

\* a complete of parts 1 and 2 has answered with success and the object is the
\* six MiB of part 1 and the byte of part 2
C2_Witness ==
    /\ mpuResp.op = "complete"
    /\ mpuResp.err = ErrNone
    /\ ~mpuResp.overlap
    /\ Len(Listed(mpuResp)) = 2
    /\ objects[<<"bkt", ShortKey>>].Size = BigPartSize + 1

NamesUpload(rsp) == rsp.op \in {"putPart", "listParts", "complete", "abort"}

\* C3 as the claim states it: no removed id is in the registry, and every
\* put-part, list-parts, complete or abort request made after the removal of
\* the upload it names fails with NoSuchUpload.
C3_LaterRequestsNoSuchUpload ==
    /\ registry \cap ghost.removed = {}
    /\ (mpuResp.late /\ NamesUpload(mpuResp)) => mpuResp.err = ErrNoSuchUpload

\* the error of a request that does not get as far as the registry: a part number
\* that is no integer in [1, 10000], a Content-Length that is absent or not
\* positive, a body that is no XML document, a marker or max-parts that is no
\* integer; ErrNone for a request that does
BeforeLookup(rsp) ==
    LET pn  == ParseInt(QueryGet(rsp.r.Query, "partNumber"))
        len == ParseInt(Get(rsp.r.Header, "Content-Length"))
        int(name) == \/ name \notin DOMAIN rsp.r.Query
                     \/ ~ParseInt(rsp.r.Query[name]).err
        n   == Len(rsp.r.Body)
    IN  CASE rsp.op = "putPart" ->
                 IF pn.err \/ pn.val < 1 \/ pn.val > 10000 THEN ErrInvalidPart
                 ELSE IF len.err \/ len.val <= 0 THEN ErrMissingContentLength
                 ELSE ErrNone
          [] rsp.op = "complete" ->
                 IF n < 2 \/ rsp.r.Body[1] # OpenTag \/ rsp.r.Body[n] # CloseTag
                 THEN ErrMalformedXML ELSE ErrNone
          [] rsp.op = "listParts" ->
                 IF int("part-number-marker") /\ int("max-parts") THEN ErrNone
                 ELSE ErrInvalidURI
          [] OTHER -> ErrNone

\* C3, amended: no removed id is in the registry, and every put-part,
\* list-parts, complete or abort request made after the removal of the upload it
\* names fails: with the error of the check the handler makes before it asks the
\* registry (InvalidPart, MissingContentLength, MalformedXML, InvalidURI) when
\* the request fails that check, and with NoSuchUpload otherwise.
C3_LaterRequestsFail ==
    /\ registry \cap ghost.removed = {}
    /\ (mpuResp.late /\ NamesUpload(mpuResp)) =>
           mpuResp.err = (IF BeforeLookup(mpuResp) # ErrNone THEN BeforeLookup(mpuResp)
                          ELSE ErrNoSuchUpload)

\* a put-part made after the removal of its upload has failed with NoSuchUpload
\* while another upload, begun since, is in the registry
C3_Witness ==
    /\ mpuResp.late
    /\ mpuResp.op = "putPart"
    /\ mpuResp.err = ErrNoSuchUpload
    /\ mpuResp.id \in ghost.removed
    /\ \E id \in registry : id > mpuResp.id

\* a complete or abort request that was not given the upload of its id has been
\* answered, and another request has been given it
Other(rsp) ==
    /\ rsp.op \in {"complete", "abort"}
    /\ ~rsp.obtained
    /\ rsp.id \in UploadIDs
    /\ ghost.obtained[rsp.id] >= 1

\* C4 as the claim states it: at most one complete or abort request is given
\* the upload of an id, at most one PutObject is made for it, and every other
\* complete or abort request on the id fails with NoSuchUpload.
C4_OthersNoSuchUpload ==
    /\ \A id \in UploadIDs : ghost.obtained[id] <= 1 /\ ghost.puts[id] <= 1
    /\ Other(mpuResp) => mpuResp.err = ErrNoSuchUpload

\* C4, amended: at most one complete or abort request is given the upload of an
\* id, at most one PutObject is made for it, and every other complete or abort
\* request on the id fails: with MalformedXML when it is a complete whose body
\* is no XML document, and with NoSuchUpload otherwise.
C4_OneRequestObtains ==
    /\ \A id \in UploadIDs : ghost.obtained[id] <= 1 /\ ghost.puts[id] <= 1
    /\ Other(mpuResp) =>
           mpuResp.err = (IF BeforeLookup(mpuResp) # ErrNone THEN ErrMalformedXML
                          ELSE ErrNoSuchUpload)

\* an abort has failed with NoSuchUpload while the complete that took the upload
\* has not assembled it yet
C4_Witness ==
    /\ mpuResp.op = "abort"
    /\ mpuResp.err = ErrNoSuchUpload
    /\ \E rq \in inflight : rq.op = "complete" /\ rq.id = mpuResp.id
    /\ ghost.obtained[mpuResp.id] = 1

\* the parts table of the bodies last stored
PartsOf(stored) ==
    [pn \in DOMAIN stored |->
        [ETag |-> ETagHeader(MD5(stored[pn])), Body |-> stored[pn], LastModified |-> 0]]

\* C5: the outcome of a complete request that was given the upload, its error
\* and the bytes it assembled, is the outcome of assembling the parts stored by
\* the put-parts answered before the upload left the registry; a part added
\* later does not change it.
C5_AssembledAsAtRemoval ==
    (mpuResp.op = "complete" /\ mpuResp.obtained) =>
        LET asm == Reassemble([parts |-> PartsOf(mpuResp.atRemoval)],
                              [Parts |-> Listed(mpuResp)])
        IN  /\ mpuResp.err = asm.err
            /\ mpuResp.body = asm.body

\* the bytes a client sends to the upload id
BytesOf(id) == {BigPart(id)[1][1], SmallPart(id)[1][1]}

\* C6: once a put-part that had looked its upload up before an abort removed it
\* has stored its part, the upload is not in the registry, no object of the
\* backend holds a byte sent to the upload, no PutObject was made for it, a
\* list-parts of the id lists no part, and a list-uploads does not list the id.
C6_LatePartDiscarded ==
    \A id \in ghost.discarded :
        /\ id \notin registry
        /\ ghost.puts[id] = 0
        /\ \A k \in DOMAIN objects :
               \A i \in 1..Len(objects[k].Contents) :
                   objects[k].Contents[i][1] \notin BytesOf(id)
        /\ (mpuResp.op = "listParts" /\ mpuResp.id = id) =>
               (mpuResp.err # ErrNone /\ mpuResp.Parts = <<>>)
        /\ mpuResp.op = "listUploads" =>
               \A i \in 1..Len(mpuResp.Uploads) : mpuResp.Uploads[i].UploadID # id

\* a list-parts has been answered for an upload that a put-part added a part to
\* after its abort
C6_Witness ==
    /\ mpuResp.op = "listParts"
    /\ mpuResp.id \in ghost.discarded
    /\ mpuResp.r.Query = EmptyMap
    /\ uploads[mpuResp.id].parts # EmptyMap

(***************************************************************************)
(* Claims about the range parser (checked under SpecRange).                *)
(***************************************************************************)
Min(a, b) == IF a <= b THEN a ELSE b

\* the resolution the specification gives for each request form
RefRange(req, size) ==
    IF req.nil THEN NilObjectRange
    ELSE IF req.FromEnd
    THEN IF req.End > size
         THEN [nil |-> FALSE, Start |-> 0, Length |-> size]
         ELSE [nil |-> FALSE, Start |-> size - req.End, Length |-> req.End]
    ELSE IF req.End = RangeNoEnd
    THEN [nil |-> FALSE, Start |-> req.Start, Length |-> size - req.Start]
    ELSE [nil |-> FALSE, Start |-> req.Start,
          Length |-> Min(req.End, size - 1) - req.Start + 1]

\* C7: for every accepted request and every size, Range(size) is the reference
\* resolution: bytes=S-E gives start S and length min(E, size-1)-S+1, bytes=S-
\* gives start S and length size-S, bytes=-N gives the whole object when
\* N > size and otherwise start size-N and length N; a nil request gives no range.
C7_RangeEqualsReference ==
    (rngOut.done /\ rngOut.err = ErrNone) =>
        /\ rngOut.rng = RefRange(rngOut.req, rngIn.size)
        /\ \A s \in Nums, e \in Nums :
              (s <= e /\ rngIn.hdr = FirstLast(s, e)) =>
                  /\ ~rngOut.rng.nil
                  /\ rngOut.rng.Start = s
                  /\ rngOut.rng.Length = Min(e, rngIn.size - 1) - s + 1
        /\ \A s \in Nums :
              rngIn.hdr = FirstOnly(s) =>
                  /\ ~rngOut.rng.nil
                  /\ rngOut.rng.Start = s
                  /\ rngOut.rng.Length = rngIn.size - s
        /\ \A n \in Nums :
              rngIn.hdr = Suffix(n) =>
                  /\ ~rngOut.rng.nil
                  /\ rngOut.rng.Start = (IF n > rngIn.size THEN 0 ELSE rngIn.size - n)
                  /\ rngOut.rng.Length = (IF n > rngIn.size THEN rngIn.size ELSE n)
        /\ rngIn.hdr = <<>> => rngOut.rng.nil

\* a suffix longer than a non-empty object has been resolved to the whole object
C7_Witness ==
    /\ rngOut.done
    /\ rngIn.size > 0
    /\ \E n \in Nums : n > rngIn.size /\ rngIn.hdr = Suffix(n)
    /\ rngOut.rng = [nil |-> FALSE, Start |-> 0, Length |-> rngIn.size]

\* C8: for every accepted Range header and every size, the resolved range lies
\* within the object: 0 <= start <= size, 0 <= length, start + length <= size.
C8_ResolvedRangeClamped ==
    (rngOut.done /\ rngOut.err = ErrNone /\ ~rngOut.rng.nil) =>
        /\ 0 <= rngOut.rng.Start
        /\ rngOut.rng.Start <= rngIn.size
        /\ 0 <= rngOut.rng.Length
        /\ rngOut.rng.Start + rngOut.rng.Length <= rngIn.size

(***************************************************************************)
(* Claims about the server (checked under SpecServer).                     *)
(***************************************************************************)
Abs(n) == IF n < 0 THEN 0 - n ELSE n

\* the skew of the request the last response answers, in seconds
SkewOf(rsp) == Abs((rsp.at * 60) - rsp.sent)

\* C11: with a skew limit L that is not 0, a request with a parseable
\* x-amz-date D is handed on by the guard if and only if |now - D| <= L, a skew
\* of exactly L included; otherwise it is answered RequestTimeTooSkewed, no
\* backend call is made and the store is left as it was.  With the limit 0 no
\* request is answered RequestTimeTooSkewed.
C11_SkewGuardGates ==
    /\ (resp.op # "none" /\ cfg.timeSkew = 0) => resp.err # ErrRequestTimeTooSkewed
    /\ (resp.op # "none" /\ cfg.timeSkew # 0 /\ resp.date = "parseable") =>
          IF SkewOf(resp) <= cfg.timeSkew
          THEN resp.op # "timeSkewMiddleware" /\ resp.err # ErrRequestTimeTooSkewed
          ELSE /\ resp.op = "timeSkewMiddleware"
               /\ resp.err = ErrRequestTimeTooSkewed
               /\ resp.status = 403
               /\ resp.calls = <<>>
               /\ resp.unchanged

\* a PUT object request whose skew is the limit itself was served and stored
C11_Witness ==
    /\ cfg.timeSkew = DefaultSkewLimit
    /\ resp.date = "parseable"
    /\ SkewOf(resp) = DefaultSkewLimit
    /\ resp.op = "createObject"
    /\ resp.err = ErrNone
    /\ ~resp.unchanged

\* C12: a request without x-amz-date, or with one that is not in the format
\* 20060102T150405Z, is handed on by the guard and never answered
\* RequestTimeTooSkewed, whatever the clock reads.
C12_UndatedBypasses ==
    (resp.op # "none" /\ resp.date \in {"absent", "unparseable"}) =>
        /\ resp.op # "timeSkewMiddleware"
        /\ resp.err # ErrRequestTimeTooSkewed

\* C13: every response of the handler Server() returns carries the CORS
\* headers, the responses of the time-skew guard and the responses to requests
\* the host rewrite changed included, and an OPTIONS request is answered 200.
C13_EveryResponseCORS ==
    resp.op # "none" =>
        /\ \A h \in DOMAIN CORSHeaders :
              h \in DOMAIN resp.hdrs /\ resp.hdrs[h] = CORSHeaders[h]
        /\ resp.Method = "OPTIONS" => resp.status = StatusOK

(***************************************************************************)
(* Claims about objects and buckets (checked under Spec).  Every step of   *)
(* Spec serves one request, and resp' is the response to it.               *)
(***************************************************************************)
\* the handler rejects the PUT request before it comes to the digest
RejectedEarly(r, object) ==
    \/ metadataHeaders(r.Header, now, cfg.metadataSizeLimit).err # ErrNone
    \/ ParseInt(Get(r.Header, "Content-Length")).err
    \/ ParseInt(Get(r.Header, "Content-Length")).val <= 0
    \/ Size(object) > KeySizeLimit

AmzHeaders(h) == [hk \in {k \in DOMAIN h : HasPrefix(k, "X-Amz-")} |-> h[hk][1]]

\* C15: a PUT object request whose X-Amz- headers have, keys and values
\* together, at most the metadata limit in bytes is not rejected with
\* MetadataTooLarge, and when it succeeds the object holds each of those headers
\* with its value; a HEAD of an object answers every X-Amz- header the object
\* holds with its value; a PUT whose X-Amz- headers exceed the limit fails with
\* MetadataTooLarge and nothing is stored.
C15_MetadataWithinLimit ==
    [][/\ resp'.op = "createObject" =>
            LET amz == AmzHeaders(resp'.r.Header)
                key == <<resp'.bucket, resp'.key>>
            IN  IF metadataSize(amz) <= cfg.metadataSizeLimit
                THEN /\ resp'.err # ErrMetadataTooLarge
                     /\ resp'.err = ErrNone =>
                           \A hk \in DOMAIN amz :
                              /\ hk \in DOMAIN objects'[key].Metadata
                              /\ objects'[key].Metadata[hk] = amz[hk]
                ELSE /\ resp'.err = ErrMetadataTooLarge
                     /\ objects' = objects
       /\ (resp'.op = "headObject" /\ resp'.err = ErrNone) =>
            LET meta == objects[<<resp'.bucket, resp'.key>>].Metadata
            IN  \A hk \in DOMAIN AmzHeaders([k \in DOMAIN meta |-> <<meta[k]>>]) :
                   /\ hk \in DOMAIN resp'.hdrs
                   /\ resp'.hdrs[hk] = meta[hk]]_vars

\* C17: a PUT object, browser upload, GET object or HEAD object response that
\* carries an ETag header carries the quoted lowercase hexadecimal of the hash
\* of the object stored at the key.
C17_ETagIsQuotedHash ==
    (/\ resp.op \in {"createObject", "createObjectBrowserUpload", "getObject", "headObject"}
     /\ resp.err = ErrNone
     /\ "Etag" \in DOMAIN resp.hdrs) =>
        /\ <<resp.bucket, resp.key>> \in DOMAIN objects
        /\ IsQuotedHexOf(resp.hdrs["Etag"], objects[<<resp.bucket, resp.key>>].Hash)

\* C18: DELETE bucket succeeds only on an existing bucket that holds no
\* object, and then the bucket exists no longer; on a bucket that holds an
\* object it fails with BucketNotEmpty and the buckets and the objects are as
\* they were.
C18_DeleteBucketOnlyEmpty ==
    [][resp'.op = "deleteBucket" =>
          LET b == resp'.bucket
          IN  /\ (b \in buckets /\ BucketKeys(objects, b) = {}) =>
                    /\ resp'.err = ErrNone
                    /\ buckets' = buckets \ {b}
                    /\ objects' = objects
              /\ (b \in buckets /\ BucketKeys(objects, b) # {}) =>
                    /\ resp'.err = ErrBucketNotEmpty
                    /\ buckets' = buckets
                    /\ objects' = objects
              /\ resp'.err = ErrNone => (b \in buckets /\ BucketKeys(objects, b) = {})]_vars

\* a DELETE of a bucket that holds an object has failed with BucketNotEmpty and
\* the bucket holds the object still
C18_Witness ==
    /\ resp.op = "deleteBucket"
    /\ resp.err = ErrBucketNotEmpty
    /\ resp.status = 409
    /\ resp.bucket \in buckets
    /\ BucketKeys(objects, resp.bucket) # {}

\* C19: a multi-delete of the keys K in an existing bucket succeeds, removes
\* the objects of the bucket whose keys are in K and leaves every other object
\* as it was; without Quiet the response lists under Deleted every key removed,
\* with Quiet it lists nothing under Deleted, and nothing under Error.
C19_MultiDeleteRemovesK ==
    [][(resp'.op = "deleteMulti" /\ resp'.bucket \in buckets /\ ~resp'.r.cut) =>
          LET b       == resp'.bucket
              gone    == {<<b, k>> : k \in resp'.r.K}
              listed  == {resp'.body.Deleted[i].Key : i \in 1..Len(resp'.body.Deleted)}
          IN  /\ resp'.err = ErrNone
              /\ DOMAIN objects' = DOMAIN objects \ gone
              /\ \A p \in DOMAIN objects' : objects'[p] = objects[p]
              /\ buckets' = buckets
              /\ resp'.body.Error = <<>>
              /\ IF resp'.r.Quiet THEN resp'.body.Deleted = <<>>
                 ELSE /\ \A p \in gone \cap DOMAIN objects : p[2] \in listed
                      /\ listed \subseteq resp'.r.K]_vars

\* a multi-delete of one key with Quiet has left the bucket's other object, and
\* the response lists nothing
C19_Witness ==
    /\ resp.op = "deleteMulti"
    /\ resp.err = ErrNone
    /\ resp.r.Quiet
    /\ resp.r.K = {ShortKey}
    /\ resp.body.Deleted = <<>>
    /\ DOMAIN objects = {<<"bkt", MaxKey>>}

(***************************************************************************)
(* More claims about multipart uploads (checked under SpecMPU).  The       *)
(* backend starts without objects, so every object was written by a        *)
(* request.                                                                *)
(***************************************************************************)
\* C16: every object the front-end has written has a key of at most 1024
\* bytes, and an initiate, put-part or complete request naming a longer key is
\* answered KeyTooLong.
C16_StoredKeysWithinLimit ==
    /\ \A p \in DOMAIN objects : Size(p[2]) <= KeySizeLimit
    /\ (/\ mpuResp.op \in {"initiate", "putPart", "complete"}
        /\ mpuResp.id \in UploadIDs
        /\ Size(UploadKey(mpuResp.id)) > KeySizeLimit) => mpuResp.err = ErrKeyTooLong

\* the parts table of every upload is after the step what it was before
PartsUnchanged ==
    /\ DOMAIN uploads' = DOMAIN uploads
    /\ \A id \in DOMAIN uploads : uploads'[id].parts = uploads[id].parts

\* the step is a put-part request answered before the upload was obtained: a
\* request is counted and the response is a new one, to a put-part
PartRejectedAtLookup ==
    /\ ghost'.requests = ghost.requests + 1
    /\ mpuResp' # mpuResp
    /\ mpuResp'.op = "putPart"

\* the step is a put-part request answered after its body was read: it leaves
\* the requests in flight, and the response is to a put-part
PartAnsweredAfterBody ==
    /\ ghost'.requests = ghost.requests
    /\ inflight' # inflight
    /\ mpuResp'.op = "putPart"

\* C20: a put-part request is rejected with InvalidPart when its part number
\* is no integer from 1 to 10000, before anything else is looked at, the
\* upload id included; with MissingContentLength when Content-Length is absent
\* or not above 0; with NoSuchUpload when the id is not in the registry; with
\* IncompleteBody when the body is shorter than Content-Length; and a rejected
\* request leaves the parts table of every upload as it was.
C20_PutPartRejections ==
    [][LET r    == mpuResp'.r
           pn   == ParseInt(QueryGet(r.Query, "partNumber"))
           size == ParseInt(Get(r.Header, "Content-Length"))
       IN  /\ PartRejectedAtLookup =>
                  /\ mpuResp'.err # ErrNone
                  /\ mpuResp'.err =
                        (IF pn.err \/ pn.val < 1 \/ pn.val > 10000 THEN ErrInvalidPart
                         ELSE IF Get(r.Header, "Content-Length") = <<>> \/ size.err
                                    \/ size.val <= 0
                         THEN ErrMissingContentLength
                         ELSE ErrNoSuchUpload)
                  /\ mpuResp'.err = ErrNoSuchUpload => mpuResp'.id \notin registry
                  /\ PartsUnchanged
           /\ PartAnsweredAfterBody =>
                  /\ Size(r.Body) < size.val => mpuResp'.err = ErrIncompleteBody
                  /\ mpuResp'.err # ErrNone => PartsUnchanged]_vars

\* a put-part request whose body is a byte short of its Content-Length has been
\* rejected with IncompleteBody, for an upload that holds a part
C20_Witness ==
    /\ mpuResp.op = "putPart"
    /\ mpuResp.err = ErrIncompleteBody
    /\ Size(mpuResp.r.Body) < ParseInt(Get(mpuResp.r.Header, "Content-Length")).val
    /\ mpuResp.id \in registry
    /\ uploads[mpuResp.id].parts # EmptyMap

\* the step is a complete request answered after it was given the upload: it
\* leaves the requests in flight, and the response is to a complete
CompleteAnsweredAfterLookup ==
    /\ ghost'.requests = ghost.requests
    /\ inflight' # inflight
    /\ mpuResp'.op = "complete"

\* the step is a complete request answered before it was given an upload
CompleteRejectedAtLookup ==
    /\ ghost'.requests = ghost.requests + 1
    /\ mpuResp' # mpuResp
    /\ mpuResp'.op = "complete"

\* what C21 says of the complete request that fails after the lookup, and of
\* the one whose body is no document
ConsumedOrUntouched ==
    /\ (CompleteAnsweredAfterLookup /\ mpuResp'.err # ErrNone) =>
          /\ objects' = objects
          /\ mpuResp'.id \notin registry'
          /\ mpuResp'.id \in ghost'.removed
    /\ (CompleteRejectedAtLookup /\ BeforeLookup(mpuResp') = ErrMalformedXML) =>
          /\ mpuResp'.err = ErrMalformedXML
          /\ registry' = registry
          /\ PartsUnchanged
          /\ objects' = objects
    /\ (mpuResp'.retry /\ mpuResp'.op = "complete") =>
          /\ ~mpuResp'.obtained
          /\ objects' = objects

\* C21 as the claim states it: a complete request that was given the upload
\* and then failed, in Reassemble or in PutObject, writes no object and leaves
\* the id out of the registry, and every later put-part, list-parts, complete
\* or abort request for the id fails with NoSuchUpload; a complete request
\* whose body is no XML document fails with MalformedXML and leaves the
\* registry and the parts of every upload as they were.
C21_FailedCompleteConsumes ==
    [][/\ ConsumedOrUntouched
       /\ (mpuResp'.retry /\ NamesUpload(mpuResp')) =>
              mpuResp'.err = ErrNoSuchUpload]_vars

\* C21, amended: as above, but a later request for the id fails with the error
\* of the check its handler makes before it asks the registry (InvalidPart,
\* MissingContentLength, MalformedXML, InvalidURI) when it fails that check,
\* and with NoSuchUpload otherwise.
C21_FailedCompleteConsumesOrRejects ==
    [][/\ ConsumedOrUntouched
       /\ (mpuResp'.retry /\ NamesUpload(mpuResp')) =>
              mpuResp'.err = (IF BeforeLookup(mpuResp') # ErrNone
                              THEN BeforeLookup(mpuResp') ELSE ErrNoSuchUpload)]_vars

\* a complete request failed in PutObject, the bucket being gone, and the same
\* request made again has failed with NoSuchUpload; no object was written
C21_Witness ==
    /\ mpuResp.op = "complete"
    /\ mpuResp.retry
    /\ mpuResp.err = ErrNoSuchUpload
    /\ BeforeLookup(mpuResp) = ErrNone
    /\ ghost.consumed[mpuResp.id] = ErrNoSuchBucket
    /\ mpuResp.id \notin registry
    /\ objects = EmptyMap

====
